---- MODULE Spec2Model ----
(***************************************************************************)
(* The editor control bridge of GhostWriter.                               *)
(*                                                                         *)
(*  - OnlyOfficeControlApi (lib/onlyoffice-control): the Cross-Origin      *)
(*    Control API: ready handshake, request/response correlation over      *)
(*    postMessage, per-request timers, selection listeners.                *)
(*  - HtmlEditorControlApi (lib/html-editor-control): the In-Process       *)
(*    Control API bound to a live rich-text editor.                        *)
(*                                                                         *)
(* Strings the code trims are sequences of one-character strings, so that  *)
(* trim() is computed.  A JavaScript value that is undefined/null is one   *)
(* of the sentinels NoText, NoType, NoWindow, 0 (ids, timestamps).         *)
(*                                                                         *)
(* `out` is the observable output of the latest step: which operation      *)
(* ran, which branch of it, the messages it posted, the promise callbacks  *)
(* it invoked and the listener invocations it made.                        *)
(***************************************************************************)
EXTENDS Integers, Sequences, FiniteSets, TLC

VARIABLES
  mounted,             \* which editing substrate the page mounted
  attach,              \* where the mount logic of OnlyOfficeEditor is
  clock,               \* Date.now()
  \* ---- OnlyOfficeControlApi fields
  messageHandler,      \* TRUE iff the window "message" listener is registered
  pluginReady,
  bridgeWindow,
  selectionListeners,
  latestSelection,
  requestMap,          \* id -> the pending entry (the command its closures hold)
  \* ---- browser state owned by the OnlyOfficeControlApi instance
  timers,              \* ids whose window.setTimeout is still armed
  promise,             \* id -> state of the promise request() returned
  initPc,              \* init() call -> where that call is
  frame,               \* what the resolver getTargetWindow() returns now
  \* ---- HtmlEditorControlApi fields and its editor
  listeners,
  lastSelection,
  editorOn,            \* registrations of emitSelectionChange on "selectionUpdate"
  edSel,               \* editor.state.selection, [from, to]
  doc,                 \* the document of the mounted editor: its paragraphs
  \* ---- the document functions
  html,                \* the HTML string the document functions transform
  \* ---- the plugin inside the office editor's frame
  lastText,            \* text of the selection snapshot it sent last
  lastSelectionType,   \* selection type of that snapshot
  received,            \* event.data of the message event its listener got last
  checks,              \* the calls of emitSelectionIfChanged that are suspended
  lastSent,            \* payload of the selectionChanged message it posted last
  wire,                \* its messages to the page that have not arrived yet
  pollTimer,           \* TRUE iff its poll interval is set
  \* ---- output of the latest step
  out

vars == <<mounted, attach, clock, html, messageHandler, pluginReady, bridgeWindow, selectionListeners,
          latestSelection, requestMap, timers, promise, initPc, frame,
          listeners, lastSelection, editorOn, edSel, doc, lastText, lastSelectionType,
          received, checks, lastSent, wire, pollTimer, out>>

ooVars == <<messageHandler, pluginReady, bridgeWindow, selectionListeners,
            latestSelection, requestMap, timers, promise, initPc, frame>>

htmlVars == <<listeners, lastSelection, editorOn, edSel, doc>>

pluginVars == <<lastText, lastSelectionType, received, checks, lastSent, wire, pollTimer>>

mountVars == <<mounted, attach>>

----------------------------------------------------------------------------
\* Bounds of the model.

MaxLen == 2            \* longest text
NumListeners == 2      \* listener functions the application owns
MaxRequests == 2       \* request() calls (ids) in one run
MaxInitCalls == 2      \* init() calls in one run
MaxChecks == 2         \* calls of emitSelectionIfChanged suspended at once
MaxClock == 2          \* last clock value
MaxEditorOn == 2       \* most init() calls on one HtmlEditorControlApi

----------------------------------------------------------------------------
\* Values.

APP_SOURCE == "parapreceptor-app"
PLUGIN_SOURCE == "parapreceptor-onlyoffice-plugin"

Chars == {" ", "a"}
Texts == UNION {[1..n -> Chars] : n \in 0..MaxLen}
NoText == <<"undefined">>        \* an undefined string-valued field
NoType == "undefined"
NoWindow == "null"
Windows == {"W1", "W2"}
Listeners == 1..NumListeners
Ids == 1..MaxRequests
InitCalls == 1..MaxInitCalls
CheckIds == 1..MaxChecks

NBSP == "&nbsp;"                 \* the character U+00A0
IsSpace(c) == c \in {" ", "\n", NBSP}

RECURSIVE TrimStart(_)
TrimStart(s) ==
  IF s # <<>> /\ IsSpace(Head(s)) THEN TrimStart(Tail(s)) ELSE s

RECURSIVE TrimEnd(_)
TrimEnd(s) ==
  IF s # <<>> /\ IsSpace(s[Len(s)]) THEN TrimEnd(SubSeq(s, 1, Len(s) - 1)) ELSE s

\* Trim that strips nothing
TrimNone(s) == s

\* String.prototype.trim
Trim(s) == TrimEnd(TrimStart(s))

\* String(x || "")
StringOr(x) == IF x = NoText THEN <<>> ELSE x

DateNow == clock

Snapshot(text, selectionType, changedAt) ==
  [text |-> text, selectionType |-> selectionType, changedAt |-> changedAt]

\* PayloadSnapshot that keeps the cached snapshot
PayloadSnapshotStale(m) == latestSelection

\* the snapshot the handler builds from a selectionChanged payload
PayloadSnapshot(m) ==
  Snapshot(StringOr(m.text),
           IF m.selectionType = NoType THEN "unknown" ELSE m.selectionType,
           IF m.changedAt = 0 THEN DateNow ELSE m.changedAt)

Err(text, arg) == [text |-> text, arg |-> arg]
NoError == Err("", "")
TimeoutError(command) == Err("Timeout comando bridge: ", command)
ClosedError == Err("Bridge encerrado.", "")
\* RemoteError that always carries the default text
RemoteErrorDefault(message) == Err("Erro no bridge ONLYOFFICE.", "")

\* new Error(data.payload?.message || "Erro no bridge ONLYOFFICE."), line 73
RemoteError(message) ==
  Err(IF message = "" THEN "Erro no bridge ONLYOFFICE." ELSE message, "")
\* UnavailableError carrying the text of the timeout error
UnavailableErrorAsTimeout == Err("Timeout comando bridge: ", "")

\* the error of request() when there is no target window, line 168
UnavailableError == Err("Iframe ONLYOFFICE indisponivel.", "")

\* JavaScript values found where a number is expected: a number n, undefined
\* (a field that is absent) and a value Number() turns into NaN
JsNum(n) == [t |-> "number", n |-> n]
JsUndefined == [t |-> "undefined", n |-> 0]
JsNaN == [t |-> "NaN", n |-> 0]

\* the value in a condition or on the left of ||
Truthy(v) == v.t = "number" /\ v.n # 0

\* Number.isFinite(Number(v)) ? Number(v) : 0, OnlyOfficeControlApi lines 128-132
FiniteOrZero(v) == IF v.t = "number" THEN v.n ELSE 0

\* the reply to getDocumentStats that is no object: (result || {}), line 126
NoStatsReply ==
  [pages |-> JsUndefined, paragraphs |-> JsUndefined, words |-> JsUndefined,
   symbols |-> JsUndefined, symbolsWithSpaces |-> JsUndefined]

\* what getDocumentStats() returns for the reply's result, lines 126-133
CoerceStats(result) ==
  [pages |-> FiniteOrZero(result.pages),
   paragraphs |-> FiniteOrZero(result.paragraphs),
   words |-> FiniteOrZero(result.words),
   symbols |-> FiniteOrZero(result.symbols),
   symbolsWithSpaces |-> FiniteOrZero(result.symbolsWithSpaces)]

\* what the public method that issued `command` returns for the raw result
MethodReturn(command, result) ==
  IF command = "getSelectedText" THEN Trim(StringOr(result))
  ELSE IF command = "getDocumentStats" THEN CoerceStats(result)
  ELSE result

----------------------------------------------------------------------------
\* Output of a step.

NoNotified == [l \in Listeners |-> <<>>]

\* no message
NoMsg ==
  [source |-> "", type |-> "", evSource |-> NoWindow, id |-> 0, text |-> NoText,
   selectionType |-> NoType, changedAt |-> 0, result |-> NoText, message |-> ""]

\* the output of an operation `op` that posts nothing, settles no promise, emits no
\* snapshot and invokes no listener.  For the document functions: the counts
\* returned, the HTML string handed in (before), the HTML string at the start
\* of the run (origin) and the applications made since (chain).  For the
\* document commands: the arguments of the call (args), what was handed to
\* the editor for insertion (inserted) and, for the plugin, the messages it
\* sent to the page (sent).  For manual numbering: the counts returned
\* (converted, hadNumbering).  For getDocumentStats: the figures returned
\* (stats).  For the plugin: the editor methods it called (apiCalls)
NoStats == [pages |-> 0, paragraphs |-> 0, words |-> 0, symbols |-> 0, symbolsWithSpaces |-> 0]
NoInsert == [kind |-> "", value |-> <<>>]
Quiet(op) ==
  [op |-> op, branch |-> "", msg |-> NoMsg, id |-> 0, listener |-> 0, call |-> 0,
   posted |-> {}, settled |-> {}, emitted |-> <<>>, notified |-> NoNotified,
   returned |-> NoText, matches |-> 0, cleared |-> 0, before |-> <<>>, origin |-> <<>>,
   chain |-> <<>>, args |-> <<>>, inserted |-> NoInsert, sent |-> <<>>,
   converted |-> 0, hadNumbering |-> 0, stats |-> NoStats, apiCalls |-> <<>>,
   highlighted |-> 0]

\* one invocation of a promise's resolve or reject
Resolved(id, command, result) ==
  [id |-> id, how |-> "resolve", command |-> command,
   value |-> MethodReturn(command, result), error |-> NoError]
Rejected(id, command, error) ==
  [id |-> id, how |-> "reject", command |-> command, value |-> NoText, error |-> error]

\* the promise after resolve/reject is invoked: only the first invocation counts
Settle(p, how) ==
  IF p = "pending" THEN (IF how = "resolve" THEN "fulfilled" ELSE "rejected") ELSE p

\* k emissions of one snapshot
Emissions(snapshot, k) == [i \in 1..k |-> snapshot]

\* `for (const listener of set) listener(snapshot)`, once for each emission
Fanout(set, emitted) ==
  [l \in Listeners |-> IF l \in set THEN emitted ELSE <<>>]

\* Replay that invokes nobody
ReplayNone(l, snapshot) == NoNotified

\* `listener(latest)` in onSelectionChanged
Replay(l, snapshot) ==
  [k \in Listeners |-> IF k = l THEN <<snapshot>> ELSE <<>>]

\* Without that drops every listener
WithoutAll(set, l) == {}

\* `set.delete(listener)` in the function onSelectionChanged returns
Without(set, l) == set \ {l}

\* what that Set.delete returns
Deleted(set, l) == IF l \in set THEN "deleted" ELSE "absent"

----------------------------------------------------------------------------
\* Messages arriving at the application window (BridgeMessage plus event.source).

Msg(source, type, evSource, id, text, selectionType, changedAt, result, message) ==
  [source |-> source, type |-> type, evSource |-> evSource, id |-> id, text |-> text,
   selectionType |-> selectionType, changedAt |-> changedAt, result |-> result,
   message |-> message]

ReadyMsgs(S, W) ==
  {Msg(s, "ready", w, 0, NoText, NoType, 0, NoText, "") : s \in S, w \in W}

SelectionMsgs(S, W, I, T, ST, CA) ==
  {Msg(s, "selectionChanged", w, i, t, st, ca, NoText, "") :
     s \in S, w \in W, i \in I, t \in T, st \in ST, ca \in CA}

ResponseMsgs(S, I, R) ==
  {Msg(s, "response", NoWindow, i, NoText, NoType, 0, r, "") : s \in S, i \in I, r \in R}

ErrorMsgs(S, I, E) ==
  {Msg(s, "error", NoWindow, i, NoText, NoType, 0, NoText, e) : s \in S, i \in I, e \in E}

\* a message of a type the handler has no case for
OtherMsgs(S, I) ==
  {Msg(s, "other", NoWindow, i, NoText, NoType, 0, NoText, "") : s \in S, i \in I}

----------------------------------------------------------------------------
\* OnlyOfficeControlApi

\* FreshId that hands out one id again and again
FreshIdReused == CHOOSE i \in Ids : \A j \in Ids : i <= j

\* crypto.randomUUID(): an id no request of this run has used
FreshId == CHOOSE i \in Ids : promise[i].state = "none" /\ \A j \in 1..(i - 1) : promise[j].state # "none"
HasFreshId == \E i \in Ids : promise[i].state = "none"

\* RequestTarget re-resolved on every dispatch, ignoring the recorded window
RequestTargetResolved == frame

\* const target = this.bridgeWindow || this.getTargetWindow()
RequestTarget == IF bridgeWindow # NoWindow THEN bridgeWindow ELSE frame

\* (event.source as Window) || this.bridgeWindow
SourceOr(m) == IF m.evSource # NoWindow THEN m.evSource ELSE bridgeWindow

\* FromPlugin without the check of the source tag
FromAnyone(m) == TRUE

\* does the handler accept the message's source tag
FromPlugin(m) == m.source = PLUGIN_SOURCE

\* KnownId without the look-up in the pending map
KnownIdUnchecked(m) == m.id # 0

\* const id = data.payload?.id; if (!id || !this.requestMap.has(id)) return;
KnownId(m) == m.id # 0 /\ m.id \in requestMap

\* the resolve/reject the handler invokes for a reply to a pending id
ReplySettles(m) ==
  IF m.type = "response" THEN {Resolved(m.id, promise[m.id].command, m.result)}
  ELSE IF m.type = "error" THEN {Rejected(m.id, promise[m.id].command, RemoteError(m.message))}
  ELSE {}

\* the promise p after the invocation s of its resolve or reject; the method
\* awaiting it has then run to its end
SettledBy(p, s) ==
  [state |-> Settle(p.state, s.how), command |-> "",
   error |-> IF p.state = "pending" THEN s.error ELSE p.error]

\* the promises after the invocations in S
AfterSettles(S) ==
  [i \in Ids |->
     IF \E s \in S : s.id = i
     THEN SettledBy(promise[i], CHOOSE s \in S : s.id = i)
     ELSE promise[i]]

\* the output of a window message event: what arrived
Arrived(m) == [Quiet("message") EXCEPT !.msg = m]

\* this.messageHandler, lines 44-74
HandleMessage(m) ==
  IF ~FromPlugin(m) THEN
    /\ out' = [Arrived(m) EXCEPT !.branch = "foreign"]
    /\ UNCHANGED ooVars
  ELSE IF m.type = "ready" THEN
    /\ pluginReady' = TRUE
    /\ bridgeWindow' = SourceOr(m)
    /\ out' = [Arrived(m) EXCEPT !.branch = "ready"]
    /\ UNCHANGED <<messageHandler, selectionListeners, latestSelection, requestMap,
                   timers, promise, initPc, frame>>
  ELSE IF m.type = "selectionChanged" THEN
    /\ bridgeWindow' = SourceOr(m)
    /\ latestSelection' = PayloadSnapshot(m)
    /\ out' = [Arrived(m) EXCEPT !.branch = "selectionChanged",
                 !.emitted = <<PayloadSnapshot(m)>>,
                 !.notified = Fanout(selectionListeners, <<PayloadSnapshot(m)>>)]
    /\ UNCHANGED <<messageHandler, pluginReady, selectionListeners, requestMap,
                   timers, promise, initPc, frame>>
  ELSE IF ~KnownId(m) THEN
    /\ out' = [Arrived(m) EXCEPT !.branch = "unknown"]
    /\ UNCHANGED ooVars
  ELSE
    /\ timers' = timers \ {m.id}
    /\ requestMap' = requestMap \ {m.id}
    /\ promise' = AfterSettles(ReplySettles(m))
    /\ out' = [Arrived(m) EXCEPT !.branch = "reply", !.settled = ReplySettles(m)]
    /\ UNCHANGED <<messageHandler, pluginReady, bridgeWindow, selectionListeners,
                   latestSelection, initPc, frame>>

\* a message event dispatched on the window
OODeliver(m) ==
  /\ IF messageHandler
     THEN HandleMessage(m)
     ELSE /\ out' = [Arrived(m) EXCEPT !.branch = "nolistener"]
          /\ UNCHANGED ooVars
  /\ UNCHANGED <<mountVars, clock, html, pluginVars, htmlVars>>

\* the init() call numbered c is the next one to be made
NextInitCall(c) == initPc[c] = "idle" /\ \A d \in 1..(c - 1) : initPc[d] # "idle"

\* init(), lines 41-81, up to its first await
InitEntry(c) ==
  IF messageHandler THEN
    /\ initPc' = [initPc EXCEPT ![c] = "returned"]
    /\ UNCHANGED <<messageHandler>>
  ELSE
    /\ messageHandler' = TRUE
    /\ initPc' = [initPc EXCEPT ![c] = IF pluginReady THEN "resolved" ELSE "polling"]

OOInit(c) ==
  /\ NextInitCall(c)
  /\ InitEntry(c)
  /\ out' = [Quiet("init") EXCEPT !.call = c]
  /\ UNCHANGED <<pluginReady, bridgeWindow, selectionListeners, latestSelection,
                 requestMap, timers, promise, frame>>
  /\ UNCHANGED <<mountVars, clock, html, pluginVars, htmlVars>>

\* InitPoll that returns without looking at pluginReady
InitPollUnready(c, expired) == IF expired THEN "rejected" ELSE "resolved"

\* one turn of the polling loop of init(), lines 79-83; expired is
\* Date.now() - start >= READY_TIMEOUT_MS
InitPoll(c, expired) ==
  IF expired THEN "rejected" ELSE IF pluginReady THEN "resolved" ELSE "polling"

OOInitWake(c, expired) ==
  /\ initPc[c] = "polling"
  /\ initPc' = [initPc EXCEPT ![c] = InitPoll(c, expired)]
  /\ out' = [Quiet("initWake") EXCEPT !.call = c, !.branch = InitPoll(c, expired)]
  /\ UNCHANGED <<messageHandler, pluginReady, bridgeWindow, selectionListeners,
                 latestSelection, requestMap, timers, promise, frame>>
  /\ UNCHANGED <<mountVars, clock, html, pluginVars, htmlVars>>

\* DestroySettles that rejects every request issued so far
DestroySettlesIssued ==
  {Rejected(i, promise[i].command, ClosedError) : i \in {j \in Ids : promise[j].state # "none"}}

\* the rejections destroy() makes, lines 87-90
DestroySettles == {Rejected(i, promise[i].command, ClosedError) : i \in requestMap}

\* DestroyTimers without clearTimeout
DestroyTimersKept == timers

\* the timers destroy() leaves armed
DestroyTimers == timers \ requestMap

\* destroy(), lines 86-99
ApiDestroyed ==
  /\ timers' = DestroyTimers
  /\ promise' = AfterSettles(DestroySettles)
  /\ requestMap' = {}
  /\ selectionListeners' = {}
  /\ messageHandler' = FALSE
  /\ pluginReady' = FALSE
  /\ bridgeWindow' = NoWindow
  /\ UNCHANGED <<latestSelection, initPc, frame>>

\* a call of destroy() by the application
OODestroy ==
  /\ ApiDestroyed
  /\ out' = [Quiet("destroy") EXCEPT !.settled = DestroySettles]
  /\ UNCHANGED <<mountVars, clock, html, pluginVars, htmlVars>>

\* onSelectionChanged(listener), lines 101-103
OOSubscribe(l) ==
  /\ selectionListeners' = selectionListeners \cup {l}
  /\ out' = [Quiet("subscribe") EXCEPT !.listener = l,
               !.notified = Replay(l, latestSelection)]
  /\ UNCHANGED <<messageHandler, pluginReady, bridgeWindow, latestSelection,
                 requestMap, timers, promise, initPc, frame>>
  /\ UNCHANGED <<mountVars, clock, html, pluginVars, htmlVars>>

\* the function onSelectionChanged(listener) returned, line 104
OOUnsubscribe(l) ==
  /\ selectionListeners' = Without(selectionListeners, l)
  /\ out' = [Quiet("unsubscribe") EXCEPT !.listener = l,
               !.branch = Deleted(selectionListeners, l)]
  /\ UNCHANGED <<messageHandler, pluginReady, bridgeWindow, latestSelection,
                 requestMap, timers, promise, initPc, frame>>
  /\ UNCHANGED <<mountVars, clock, html, pluginVars, htmlVars>>

\* the payload request() sends when its caller gives none, line 166
NoPayload == [text |-> NoText, html |-> NoText, color |-> ""]
Payload(text, markup, color) == [text |-> text, html |-> markup, color |-> color]

\* the message request() posts, line 178
CommandWith(target, id, command, payload) ==
  [target |-> target, source |-> APP_SOURCE, type |-> "command", id |-> id,
   command |-> command, payload |-> payload]
Command(target, id, command) == CommandWith(target, id, command, NoPayload)

\* request(command, payload), lines 166-180, called by the public method `op`
\* with the arguments args
RequestWith(op, args, command, payload) ==
  IF RequestTarget = NoWindow THEN
    /\ out' = [Quiet(op) EXCEPT !.branch = "unavailable", !.args = args,
                 !.settled = {Rejected(0, command, UnavailableError)}]
    /\ UNCHANGED <<requestMap, timers, promise>>
  ELSE
    /\ HasFreshId
    /\ requestMap' = requestMap \cup {FreshId}
    /\ timers' = timers \cup {FreshId}
    /\ promise' = [promise EXCEPT ![FreshId] = [state |-> "pending", command |-> command, error |-> NoError]]
    /\ out' = [Quiet(op) EXCEPT !.branch = "posted", !.id = FreshId, !.args = args,
                 !.posted = {CommandWith(RequestTarget, FreshId, command, payload)}]

\* request(command), the payload left out
Request(op, command) == RequestWith(op, <<>>, command, NoPayload)

\* LiveText without trim()
LiveTextUntrimmed == latestSelection.text

\* const live = (this.latestSelection.text || "").trim()
LiveText == Trim(latestSelection.text)

\* getSelectedText(), lines 107-112
OOGetSelectedText ==
  /\ IF LiveText # <<>>
     THEN /\ out' = [Quiet("getSelectedText") EXCEPT !.branch = "cached", !.returned = LiveText]
          /\ UNCHANGED <<requestMap, timers, promise>>
     ELSE Request("getSelectedText", "getSelectedText")
  /\ UNCHANGED <<messageHandler, pluginReady, bridgeWindow, selectionListeners,
                 latestSelection, initPc, frame>>
  /\ UNCHANGED <<mountVars, clock, html, pluginVars, htmlVars>>

\* selectAllContent(), lines 114-116
OOSelectAllContent ==
  /\ Request("selectAllContent", "selectAllContent")
  /\ UNCHANGED <<messageHandler, pluginReady, bridgeWindow, selectionListeners,
                 latestSelection, initPc, frame>>
  /\ UNCHANGED <<mountVars, clock, html, pluginVars, htmlVars>>

\* getDocumentStats(), lines 124-134: the request; the reply is coerced when
\* it arrives (MethodReturn)
OOGetDocumentStats ==
  /\ Request("getDocumentStats", "getDocumentStats")
  /\ UNCHANGED <<messageHandler, pluginReady, bridgeWindow, selectionListeners,
                 latestSelection, initPc, frame>>
  /\ UNCHANGED <<mountVars, clock, html, pluginVars, htmlVars>>

\* what the timer callback of request `id` does to the pending map, line 173
TimeoutMap(id) == requestMap \ {id}

\* the timer callback of request(), lines 172-175
OOTimeout(id) ==
  /\ id \in timers
  /\ timers' = timers \ {id}
  /\ requestMap' = TimeoutMap(id)
  /\ promise' = AfterSettles({Rejected(id, promise[id].command, TimeoutError(promise[id].command))})
  /\ out' = [Quiet("timeout") EXCEPT !.id = id,
               !.settled = {Rejected(id, promise[id].command, TimeoutError(promise[id].command))}]
  /\ UNCHANGED <<messageHandler, pluginReady, bridgeWindow, selectionListeners,
                 latestSelection, initPc, frame>>
  /\ UNCHANGED <<mountVars, clock, html, pluginVars, htmlVars>>

\* the hosting page replaces or removes the editor iframe
OOFrameReplaced(w) ==
  /\ w # frame
  /\ frame' = w
  /\ out' = Quiet("frameReplaced")
  /\ UNCHANGED <<messageHandler, pluginReady, bridgeWindow, selectionListeners,
                 latestSelection, requestMap, timers, promise, initPc>>
  /\ UNCHANGED <<mountVars, clock, html, pluginVars, htmlVars>>

\* time passes
Tick ==
  /\ clock < MaxClock
  /\ clock' = clock + 1
  /\ out' = Quiet("tick")
  /\ UNCHANGED <<mountVars, html, pluginVars, ooVars, htmlVars>>

----------------------------------------------------------------------------
\* HtmlEditorControlApi and the editor it is bound to

\* The document is a sequence of paragraphs, a paragraph a sequence of
\* characters, each with the color of its highlight mark ("" for none).
\* Positions count as the editor counts them: one for the start of a
\* paragraph, one for each character, one for its end.
Ch(c, color) == [c |-> c, color |-> color]
Plain(text) == [i \in 1..Len(text) |-> Ch(text[i], "")]
ParaText(para) == [i \in 1..Len(para) |-> para[i].c]

\* node.nodeSize
NodeSize(para) == Len(para) + 2

\* the position before paragraph k
RECURSIVE ParaPos(_, _)
ParaPos(d, k) == IF k <= 1 THEN 0 ELSE ParaPos(d, k - 1) + NodeSize(d[k - 1])

\* doc.content.size
DocSize(d) == ParaPos(d, Len(d) + 1)

\* the selection from..to
Sel(from, to) == [from |-> from, to |-> to]

\* selection.empty
Empty(sel) == sel.from = sel.to

\* does nodesBetween(from, to) visit paragraph k
Visited(d, k, from, to) ==
  ParaPos(d, k) < to /\ ParaPos(d, k) + NodeSize(d[k]) > from

\* the paragraphs nodesBetween(from, to) visits, in document order
VisitedParagraphs(d, from, to) ==
  SelectSeq([k \in 1..Len(d) |-> k], LAMBDA k : Visited(d, k, from, to))

\* the characters of paragraph k that lie between from and to
ParaSlice(d, k, from, to) ==
  LET start == ParaPos(d, k)
  IN SelectSeq([i \in 1..Len(d[k]) |-> [at |-> start + i, c |-> d[k][i].c]],
               LAMBDA x : from <= x.at /\ x.at + 1 <= to)

\* doc.textBetween(from, to, "\n") over the visited paragraphs ks
RECURSIVE JoinSlices(_, _, _, _)
JoinSlices(d, ks, from, to) ==
  IF ks = <<>> THEN <<>>
  ELSE LET slice == ParaSlice(d, Head(ks), from, to)
       IN [i \in 1..Len(slice) |-> slice[i].c]
          \o (IF Tail(ks) = <<>> THEN <<>> ELSE <<"\n">> \o JoinSlices(d, Tail(ks), from, to))

TextBetween(d, from, to) == JoinSlices(d, VisitedParagraphs(d, from, to), from, to)

\* the positions a text selection can start or end at: those inside a paragraph
TextPositions(d) ==
  {q \in 0..DocSize(d) :
     \E k \in 1..Len(d) : ParaPos(d, k) + 1 <= q /\ q <= ParaPos(d, k) + 1 + Len(d[k])}

\* the selections the editor can hold on document d: text selections and the
\* selection of everything
Selections(d) ==
  {x \in [from : TextPositions(d), to : TextPositions(d)] : x.from <= x.to}
    \cup {Sel(0, DocSize(d))}

\* the snapshot emitSelectionChange builds, lines 418-424, on document d
EditorSnapshot(d, sel) ==
  Snapshot(IF Empty(sel) THEN <<>> ELSE TextBetween(d, sel.from, sel.to),
           IF Empty(sel) THEN "none" ELSE "range",
           DateNow)

\* init(), lines 287-290
HInit ==
  /\ editorOn < MaxEditorOn
  /\ editorOn' = editorOn + 1
  /\ lastSelection' = EditorSnapshot(doc, edSel)
  /\ out' = [Quiet("init") EXCEPT !.emitted = <<EditorSnapshot(doc, edSel)>>,
               !.notified = Fanout(listeners, <<EditorSnapshot(doc, edSel)>>)]
  /\ UNCHANGED <<listeners, edSel, doc>>
  /\ UNCHANGED <<mountVars, clock, html, pluginVars, ooVars>>

\* destroy(), lines 292-295
HDestroy ==
  /\ editorOn' = 0
  /\ listeners' = {}
  /\ out' = Quiet("destroy")
  /\ UNCHANGED <<lastSelection, edSel, doc>>
  /\ UNCHANGED <<mountVars, clock, html, pluginVars, ooVars>>

\* onSelectionChanged(listener), lines 297-299
HSubscribe(l) ==
  /\ listeners' = listeners \cup {l}
  /\ out' = [Quiet("subscribe") EXCEPT !.listener = l,
               !.notified = Replay(l, lastSelection)]
  /\ UNCHANGED <<lastSelection, editorOn, edSel, doc>>
  /\ UNCHANGED <<mountVars, clock, html, pluginVars, ooVars>>

\* the function onSelectionChanged(listener) returned, line 300
HUnsubscribe(l) ==
  /\ listeners' = Without(listeners, l)
  /\ out' = [Quiet("unsubscribe") EXCEPT !.listener = l,
               !.branch = Deleted(listeners, l)]
  /\ UNCHANGED <<lastSelection, editorOn, edSel, doc>>
  /\ UNCHANGED <<mountVars, clock, html, pluginVars, ooVars>>

\* the user moves the selection: the editor fires "selectionUpdate", which runs
\* every registration of emitSelectionChange (line 288)
HSelectionUpdate(sel) ==
  /\ sel \in Selections(doc)
  /\ sel # edSel
  /\ edSel' = sel
  /\ lastSelection' = IF editorOn > 0 THEN EditorSnapshot(doc, sel) ELSE lastSelection
  /\ out' = [Quiet("selectionUpdate") EXCEPT
               !.emitted = Emissions(EditorSnapshot(doc, sel), editorOn),
               !.notified = Fanout(listeners, Emissions(EditorSnapshot(doc, sel), editorOn))]
  /\ UNCHANGED <<listeners, editorOn, doc>>
  /\ UNCHANGED <<mountVars, clock, html, pluginVars, ooVars>>

\* the selection after editor.commands.selectAll()
AllSelected == Sel(0, DocSize(doc))

\* the emissions of one selectAllContent(): those of the editor's
\* "selectionUpdate" when selectAll moved the selection, then the forced one
SelectAllEmissions ==
  Emissions(EditorSnapshot(doc, AllSelected),
            (IF AllSelected # edSel THEN editorOn ELSE 0) + 1)

\* selectAllContent(), lines 309-313
HSelectAllContent ==
  /\ edSel' = AllSelected
  /\ lastSelection' = EditorSnapshot(doc, AllSelected)
  /\ out' = [Quiet("selectAllContent") EXCEPT
               !.emitted = SelectAllEmissions,
               !.notified = Fanout(listeners, SelectAllEmissions)]
  /\ UNCHANGED <<listeners, editorOn, doc>>
  /\ UNCHANGED <<mountVars, clock, html, pluginVars, ooVars>>

----------------------------------------------------------------------------
\* HTML strings and the DOM (DOMParser, TreeWalker, innerHTML) as the document
\* functions of lib/html-editor-control use them.
\*
\* An HTML string is a sequence of tokens: one-character strings and tags.
\* The strings of this model are well-formed and hold no character that
\* innerHTML escapes.

\* the characters of document text: two cases of one letter, and a character
\* that is a metacharacter of regular expressions
HtmlChars == {"a", "A", "."}

\* HIGHLIGHT_COLOR_MAP.yellow and .green
Colors == {"#fef08a", "#86efac"}

\* <mark data-color="c">
MarkOpen(c) ==
  IF c = "#fef08a" THEN "<mark data-color=\"#fef08a\">" ELSE "<mark data-color=\"#86efac\">"

IsMarkOpen(t) == \E c \in Colors : t = MarkOpen(c)
MarkColor(t) == CHOOSE c \in Colors : t = MarkOpen(c)

\* the div the plugin wraps pasted HTML in (its style attribute left out)
DIV_OPEN == "<div style>"
DIV_CLOSE == "</div>"

\* the start tag and the end tag of an element
OpenTag(tag, color) ==
  IF tag = "mark" THEN MarkOpen(color)
  ELSE IF tag = "strong" THEN "<strong>"
  ELSE IF tag = "div" THEN DIV_OPEN
  ELSE "<p>"
CloseTag(tag) ==
  IF tag = "mark" THEN "</mark>"
  ELSE IF tag = "strong" THEN "</strong>"
  ELSE IF tag = "div" THEN DIV_CLOSE
  ELSE "</p>"

IsOpenTag(t) == IsMarkOpen(t) \/ t \in {"<strong>", "<p>", DIV_OPEN}
IsCloseTag(t) == t \in {"</mark>", "</strong>", "</p>", DIV_CLOSE}
TagName(t) ==
  IF IsMarkOpen(t) \/ t = "</mark>" THEN "mark"
  ELSE IF t \in {"<strong>", "</strong>"} THEN "strong"
  ELSE IF t \in {DIV_OPEN, DIV_CLOSE} THEN "div"
  ELSE "p"

\* DOM nodes: a Text node and an Element
TextNode(text) == [tag |-> "#text", color |-> "", text |-> text, kids |-> <<>>]
Element(tag, color, kids) == [tag |-> tag, color |-> color, text |-> <<>>, kids |-> kids]

\* the child list `kids` after the parser appends the character c: characters
\* in a row make one Text node
AppendChar(kids, c) ==
  IF kids # <<>> /\ kids[Len(kids)].tag = "#text"
  THEN [kids EXCEPT ![Len(kids)].text = Append(@, c)]
  ELSE Append(kids, TextNode(<<c>>))

\* the tree builder: `open` is the stack of open elements, the root first
RECURSIVE BuildTree(_, _, _)
BuildTree(tokens, i, open) ==
  IF i > Len(tokens) THEN open[1].kids
  ELSE IF IsOpenTag(tokens[i]) THEN
    BuildTree(tokens, i + 1,
              Append(open, Element(TagName(tokens[i]),
                                   IF IsMarkOpen(tokens[i]) THEN MarkColor(tokens[i]) ELSE "",
                                   <<>>)))
  ELSE IF IsCloseTag(tokens[i]) THEN
    BuildTree(tokens, i + 1,
              [SubSeq(open, 1, Len(open) - 1) EXCEPT
                 ![Len(open) - 1].kids = Append(@, open[Len(open)])])
  ELSE
    BuildTree(tokens, i + 1, [open EXCEPT ![Len(open)].kids = AppendChar(@, tokens[i])])

\* parser.parseFromString(`<div>${html}</div>`, "text/html"): the children of root
ParseHtml(markup) == BuildTree(markup, 1, <<Element("div", "", <<>>)>>)

\* root.innerHTML
RECURSIVE InnerHtml(_)
InnerHtml(kids) ==
  IF kids = <<>> THEN <<>>
  ELSE (IF Head(kids).tag = "#text" THEN Head(kids).text
        ELSE <<OpenTag(Head(kids).tag, Head(kids).color)>> \o InnerHtml(Head(kids).kids)
               \o <<CloseTag(Head(kids).tag)>>)
       \o InnerHtml(Tail(kids))

\* node.textContent of a child list
RECURSIVE TextContent(_)
TextContent(kids) ==
  IF kids = <<>> THEN <<>>
  ELSE (IF Head(kids).tag = "#text" THEN Head(kids).text ELSE TextContent(Head(kids).kids))
       \o TextContent(Tail(kids))

\* the "i" flag: canonical case of a character
FoldCase(c) == IF c = "A" THEN "a" ELSE c

\* the characters escapeRegExp puts a backslash before (those of the model)
IsMetaChar(c) == c = "."

\* escapeRegExp(value)
RECURSIVE EscapeRegExp(_)
EscapeRegExp(value) ==
  IF value = <<>> THEN <<>>
  ELSE (IF IsMetaChar(Head(value)) THEN <<"\\", Head(value)>> ELSE <<Head(value)>>)
       \o EscapeRegExp(Tail(value))

\* new RegExp(source): the atoms of the pattern, each a literal or the wildcard
RECURSIVE RegExpAtoms(_)
RegExpAtoms(source) ==
  IF source = <<>> THEN <<>>
  ELSE IF Head(source) = "\\" /\ Len(source) >= 2
    THEN <<[any |-> FALSE, c |-> source[2]]>> \o RegExpAtoms(Tail(Tail(source)))
  ELSE <<[any |-> IsMetaChar(Head(source)), c |-> Head(source)]>> \o RegExpAtoms(Tail(source))

\* does the pattern match value at offset i (case-insensitive)
MatchesAt(atoms, value, i) ==
  /\ i + Len(atoms) - 1 <= Len(value)
  /\ \A k \in 1..Len(atoms) :
       atoms[k].any \/ FoldCase(atoms[k].c) = FoldCase(value[i + k - 1])

\* the offsets of the matches of a global regular expression in value, from
\* offset i on: leftmost first, the search resuming after each match
RECURSIVE MatchOffsets(_, _, _)
MatchOffsets(atoms, value, i) ==
  IF i > Len(value) \/ atoms = <<>> THEN <<>>
  ELSE IF MatchesAt(atoms, value, i)
    THEN <<i>> \o MatchOffsets(atoms, value, i + Len(atoms))
  ELSE MatchOffsets(atoms, value, i + 1)

\* RegExpTest that never matches
RegExpTestNever(atoms, value) == FALSE

\* regex.test(value) of a regular expression without the "g" flag
RegExpTest(atoms, value) == \E i \in 1..Len(value) : MatchesAt(atoms, value, i)

\* the fragment highlightInHtml puts in the place of one text node, lines
\* 173-190: the text before each match, the match inside a mark, the rest
RECURSIVE MarkFragment(_, _, _, _, _)
MarkFragment(value, offsets, lastIndex, n, color) ==
  IF offsets = <<>>
  THEN (IF lastIndex <= Len(value)
        THEN <<TextNode(SubSeq(value, lastIndex, Len(value)))>> ELSE <<>>)
  ELSE (IF Head(offsets) > lastIndex
        THEN <<TextNode(SubSeq(value, lastIndex, Head(offsets) - 1))>> ELSE <<>>)
       \o <<Element("mark", color, <<TextNode(SubSeq(value, Head(offsets), Head(offsets) + n - 1))>>)>>
       \o MarkFragment(value, Tail(offsets), Head(offsets) + n, n, color)

\* Collected without the check of the parent
CollectedAll(parentTag) == TRUE

\* is the text node a child of `parentTag` collected by the walker, lines 160-166
Collected(parentTag) == parentTag # "mark"

\* the child list after highlightInHtml replaced the collected text nodes
RECURSIVE HighlightKids(_, _, _, _)
HighlightKids(kids, parentTag, atoms, color) ==
  IF kids = <<>> THEN <<>>
  ELSE (IF Head(kids).tag = "#text"
        THEN (IF Collected(parentTag) /\ MatchOffsets(atoms, Head(kids).text, 1) # <<>>
              THEN MarkFragment(Head(kids).text, MatchOffsets(atoms, Head(kids).text, 1),
                                1, Len(atoms), color)
              ELSE <<Head(kids)>>)
        ELSE <<[Head(kids) EXCEPT !.kids = HighlightKids(@, Head(kids).tag, atoms, color)]>>)
       \o HighlightKids(Tail(kids), parentTag, atoms, color)

\* the matches highlightInHtml counts
RECURSIVE HighlightMatches(_, _, _)
HighlightMatches(kids, parentTag, atoms) ==
  IF kids = <<>> THEN 0
  ELSE (IF Head(kids).tag = "#text"
        THEN (IF Collected(parentTag) THEN Len(MatchOffsets(atoms, Head(kids).text, 1)) ELSE 0)
        ELSE HighlightMatches(Head(kids).kids, Head(kids).tag, atoms))
       + HighlightMatches(Tail(kids), parentTag, atoms)

\* highlightInHtml(html, term, color), lines 149-194
highlightInHtml(markup, term, color) ==
  [html |-> InnerHtml(HighlightKids(ParseHtml(markup), "div", RegExpAtoms(EscapeRegExp(term)), color)),
   matches |-> HighlightMatches(ParseHtml(markup), "div", RegExpAtoms(EscapeRegExp(term)))]

\* is the mark element eligible for clearHighlightInHtml, lines 208-209
Eligible(node, atoms) == node.tag = "mark" /\ RegExpTest(atoms, TextContent(node.kids))

\* the child list after clearHighlightInHtml replaced every eligible mark by
\* a text node holding its text content, lines 207-214
RECURSIVE ClearKids(_, _)
ClearKids(kids, atoms) ==
  IF kids = <<>> THEN <<>>
  ELSE (IF Head(kids).tag = "#text" THEN <<Head(kids)>>
        ELSE IF Eligible(Head(kids), atoms) THEN <<TextNode(TextContent(Head(kids).kids))>>
        ELSE <<[Head(kids) EXCEPT !.kids = ClearKids(@, atoms)]>>)
       \o ClearKids(Tail(kids), atoms)

\* the eligible marks among root.querySelectorAll("mark")
RECURSIVE EligibleMarks(_, _)
EligibleMarks(kids, atoms) ==
  IF kids = <<>> THEN 0
  ELSE (IF Head(kids).tag = "#text" THEN 0
        ELSE (IF Eligible(Head(kids), atoms) THEN 1 ELSE 0)
             + EligibleMarks(Head(kids).kids, atoms))
       + EligibleMarks(Tail(kids), atoms)

\* clearHighlightInHtml(html, term), lines 196-217
clearHighlightInHtml(markup, term) ==
  [html |-> InnerHtml(ClearKids(ParseHtml(markup), RegExpAtoms(EscapeRegExp(term)))),
   matches |-> EligibleMarks(ParseHtml(markup), RegExpAtoms(EscapeRegExp(term))),
   cleared |-> EligibleMarks(ParseHtml(markup), RegExpAtoms(EscapeRegExp(term)))]

\* the matches countOccurrencesInHtml adds up over the text nodes the walker
\* visits, lines 231-241
RECURSIVE CountMatches(_, _)
CountMatches(kids, atoms) ==
  IF kids = <<>> THEN 0
  ELSE (IF Head(kids).tag = "#text" THEN Len(MatchOffsets(atoms, Head(kids).text, 1))
        ELSE CountMatches(Head(kids).kids, atoms))
       + CountMatches(Tail(kids), atoms)

\* countOccurrencesInHtml(html, term), lines 219-244
countOccurrencesInHtml(markup, term) ==
  IF Trim(term) = <<>> THEN 0
  ELSE CountMatches(ParseHtml(markup), RegExpAtoms(EscapeRegExp(Trim(term))))

----------------------------------------------------------------------------
\* The editor's document as HTML (editor.getHTML, setContent, insertContent)
\* and the document macros of HtmlEditorControlApi.

\* the HTML of one paragraph's content from character i on: the characters,
\* each run of one highlight color inside a mark
RECURSIVE RunsHtml(_, _)
RunsHtml(para, i) ==
  IF i > Len(para) THEN <<>>
  ELSE (IF para[i].color # "" /\ (i = 1 \/ para[i - 1].color # para[i].color)
        THEN <<MarkOpen(para[i].color)>> ELSE <<>>)
       \o <<para[i].c>>
       \o (IF para[i].color # "" /\ (i = Len(para) \/ para[i + 1].color # para[i].color)
           THEN <<"</mark>">> ELSE <<>>)
       \o RunsHtml(para, i + 1)

\* editor.getHTML()
RECURSIVE GetHTML(_)
GetHTML(d) ==
  IF d = <<>> THEN <<>>
  ELSE <<"<p>">> \o RunsHtml(Head(d), 1) \o <<"</p>">> \o GetHTML(Tail(d))

\* the characters the editor's parser makes of inline nodes: a character is
\* highlighted in the color of the nearest mark around it
RECURSIVE InlineChars(_, _)
InlineChars(kids, color) ==
  IF kids = <<>> THEN <<>>
  ELSE (IF Head(kids).tag = "#text"
        THEN [i \in 1..Len(Head(kids).text) |-> Ch(Head(kids).text[i], color)]
        ELSE InlineChars(Head(kids).kids,
                         IF Head(kids).tag = "mark" THEN Head(kids).color ELSE color))
       \o InlineChars(Tail(kids), color)

\* the paragraphs the editor's parser makes of nodes: a p element is one
\* paragraph, inline nodes in a row outside of one are wrapped in one
RECURSIVE Blocks(_, _, _)
Blocks(kids, pending, has) ==
  IF kids = <<>> THEN (IF has THEN <<pending>> ELSE <<>>)
  ELSE IF Head(kids).tag = "p"
    THEN (IF has THEN <<pending>> ELSE <<>>)
         \o <<InlineChars(Head(kids).kids, "")>> \o Blocks(Tail(kids), <<>>, FALSE)
  ELSE Blocks(Tail(kids), pending \o InlineChars(<<Head(kids)>>, ""), TRUE)

\* a document always holds a paragraph
AtLeastOneParagraph(d) == IF d = <<>> THEN <<Plain(<<>>)>> ELSE d

\* SetContent that leaves the document as it is
SetContentLost(markup) == doc

\* the document editor.commands.setContent(markup) makes
SetContent(markup) == AtLeastOneParagraph(Blocks(ParseHtml(markup), <<>>, FALSE))

\* the selection after setContent replaced the document by d: a text
\* selection is mapped to the end of the last paragraph, the selection of
\* everything stays one
SelectionAfterSetContent(old, sel, d) ==
  IF sel = Sel(0, DocSize(old)) THEN Sel(0, DocSize(d))
  ELSE Sel(DocSize(d) - 1, DocSize(d) - 1)

\* the tokens of a document: paragraph start, characters, paragraph end
P_OPEN == Ch("<p>", "")
P_CLOSE == Ch("</p>", "")
RECURSIVE Flat(_)
Flat(d) ==
  IF d = <<>> THEN <<>> ELSE <<P_OPEN>> \o Head(d) \o <<P_CLOSE>> \o Flat(Tail(d))

\* the document of a token sequence; characters outside a paragraph are
\* wrapped in one
RECURSIVE Unflat(_, _, _)
Unflat(tokens, pending, has) ==
  IF tokens = <<>> THEN (IF has THEN <<pending>> ELSE <<>>)
  ELSE IF Head(tokens) = P_OPEN
    THEN (IF has THEN <<pending>> ELSE <<>>) \o Unflat(Tail(tokens), <<>>, TRUE)
  ELSE IF Head(tokens) = P_CLOSE
    THEN <<pending>> \o Unflat(Tail(tokens), <<>>, FALSE)
  ELSE Unflat(Tail(tokens), Append(pending, Head(tokens)), TRUE)

\* the document after the characters replace what lies between from and to
ReplaceRange(d, from, to, chars) ==
  AtLeastOneParagraph(
    Unflat(SubSeq(Flat(d), 1, from) \o chars \o SubSeq(Flat(d), to + 1, Len(Flat(d))),
           <<>>, FALSE))

\* $from.marks(): the highlight color text typed at pos takes: that of the
\* character before pos in its paragraph, else that of the character after
InheritedColor(d, pos) ==
  IF pos >= 1 /\ pos <= Len(Flat(d)) /\ Flat(d)[pos] \notin {P_OPEN, P_CLOSE}
    THEN Flat(d)[pos].color
  ELSE IF pos + 1 <= Len(Flat(d)) /\ Flat(d)[pos + 1] \notin {P_OPEN, P_CLOSE}
    THEN Flat(d)[pos + 1].color
  ELSE ""

\* the paragraph that holds the text position pos (0 when none does)
ParagraphAt(d, pos) ==
  IF \E k \in 1..Len(d) : ParaPos(d, k) + 1 <= pos /\ pos <= ParaPos(d, k) + 1 + Len(d[k])
  THEN CHOOSE k \in 1..Len(d) :
         ParaPos(d, k) + 1 <= pos /\ pos <= ParaPos(d, k) + 1 + Len(d[k])
  ELSE 0

\* the paragraph with the characters inserted after its first `offset` ones
Spliced(para, offset, chars) ==
  SubSeq(para, 1, offset) \o chars \o SubSeq(para, offset + 1, Len(para))

\* tr.insertText(text, pos, pos): the text takes the marks at pos
InsertText(d, text, pos) ==
  LET chars == [i \in 1..Len(text) |-> Ch(text[i], InheritedColor(d, pos))]
      k == ParagraphAt(d, pos)
  IN IF k = 0 THEN ReplaceRange(d, pos, pos, chars)
     ELSE [d EXCEPT ![k] = Spliced(@, pos - ParaPos(d, k) - 1, chars)]

\* the characters editor.commands.insertContent(value) inserts: value is
\* parsed as HTML; text alone takes the marks at the cursor
IsTextOnly(value) == \A i \in 1..Len(value) : ~IsOpenTag(value[i]) /\ ~IsCloseTag(value[i])
InsertedChars(d, sel, value) ==
  IF IsTextOnly(value)
  THEN [i \in 1..Len(value) |-> Ch(value[i], InheritedColor(d, sel.from))]
  ELSE InlineChars(ParseHtml(value), "")

\* the cursor after insertContent: at the end of what was inserted
SelectionAfterInsert(sel, chars) ==
  Sel((IF sel.from = 0 THEN 1 ELSE sel.from) + Len(chars),
      (IF sel.from = 0 THEN 1 ELSE sel.from) + Len(chars))

\* the emissions of a command that leaves the editor with document d and
\* selection sel: those of "selectionUpdate" when the selection changed, then
\* `forced` more
CommandEmissions(d, sel, forced) ==
  Emissions(EditorSnapshot(d, sel), (IF sel # edSel THEN editorOn ELSE 0) + forced)

EmptyContentError == Err("Texto vazio para substituir.", "")
EmptyTermError == Err("Informe o Texto de entrada para a Macro1.", "")
EmptyClearTermError == Err("Informe o Texto de entrada para limpar marcacoes da Macro1.", "")
EmptySelectionError == Err("Selecione uma lista no editor.", "")

\* an async method that throws: its promise is rejected
Thrown(op, error) ==
  [Quiet(op) EXCEPT !.branch = "thrown", !.settled = {Rejected(0, op, error)}]

\* HIGHLIGHT_COLOR_MAP[key], lines 117-124 ("" for no entry)
HIGHLIGHT_COLOR_MAP(key) ==
  IF key = "yellow" THEN "#fef08a" ELSE IF key = "green" THEN "#86efac" ELSE ""

\* resolveHighlightColor(color), lines 143-147, for color names in lower case
resolveHighlightColor(color) ==
  IF color = "" THEN HIGHLIGHT_COLOR_MAP("yellow")
  ELSE IF HIGHLIGHT_COLOR_MAP(color) # "" THEN HIGHLIGHT_COLOR_MAP(color)
  ELSE color

\* the editor after this.editor.commands.setContent(markup): document,
\* selection, emissions of "selectionUpdate"
ContentSet(op, args, markup, matches, cleared) ==
  LET d == SetContent(markup)
      sel == SelectionAfterSetContent(doc, edSel, d)
      em == CommandEmissions(d, sel, 0)
  IN /\ doc' = d
     /\ edSel' = sel
     /\ lastSelection' = IF em # <<>> THEN EditorSnapshot(d, sel) ELSE lastSelection
     /\ out' = [Quiet(op) EXCEPT !.branch = "done", !.args = args,
                  !.matches = matches, !.cleared = cleared,
                  !.highlighted = IF op = "runMacro1HighlightDocument" THEN matches ELSE 0,
                  !.emitted = em, !.notified = Fanout(listeners, em)]

\* HtmlEditorControlApi.runMacro1HighlightDocument(text, color), lines 359-367
HRunMacro1HighlightDocument(text, color) ==
  /\ IF Trim(text) = <<>>
     THEN /\ out' = [Thrown("runMacro1HighlightDocument", EmptyTermError)
                       EXCEPT !.args = <<text, color>>]
          /\ UNCHANGED <<lastSelection, edSel, doc>>
     ELSE ContentSet("runMacro1HighlightDocument", <<text, color>>,
            highlightInHtml(GetHTML(doc), Trim(text), resolveHighlightColor(color)).html,
            highlightInHtml(GetHTML(doc), Trim(text), resolveHighlightColor(color)).matches,
            0)
  /\ UNCHANGED <<listeners, editorOn>>
  /\ UNCHANGED <<mountVars, clock, html, pluginVars, ooVars>>

\* HtmlEditorControlApi.clearMacro1HighlightDocument(text), lines 369-376
HClearMacro1HighlightDocument(text) ==
  /\ IF Trim(text) = <<>>
     THEN /\ out' = [Thrown("clearMacro1HighlightDocument", EmptyClearTermError)
                       EXCEPT !.args = <<text>>]
          /\ UNCHANGED <<lastSelection, edSel, doc>>
     ELSE ContentSet("clearMacro1HighlightDocument", <<text>>,
            clearHighlightInHtml(GetHTML(doc), Trim(text)).html,
            clearHighlightInHtml(GetHTML(doc), Trim(text)).matches,
            clearHighlightInHtml(GetHTML(doc), Trim(text)).cleared)
  /\ UNCHANGED <<listeners, editorOn>>
  /\ UNCHANGED <<mountVars, clock, html, pluginVars, ooVars>>

\* what replaceSelectionRich hands to insertContent, lines 332-336: the html
\* when there is one, else the text
RichContentTextFirst(text, markup) ==
  IF Trim(text) # <<>> THEN [kind |-> "text", value |-> Trim(text)]
  ELSE [kind |-> "html", value |-> Trim(markup)]
RichContent(text, markup) ==
  IF Trim(markup) # <<>> THEN [kind |-> "html", value |-> Trim(markup)]
  ELSE [kind |-> "text", value |-> Trim(text)]

\* the editor after insertContent(value) and the forced emitSelectionChange
ContentInserted(op, args, content) ==
  LET chars == InsertedChars(doc, edSel, content.value)
      d == ReplaceRange(doc, edSel.from, edSel.to, chars)
      sel == SelectionAfterInsert(edSel, chars)
      em == CommandEmissions(d, sel, 1)
  IN /\ doc' = d
     /\ edSel' = sel
     /\ lastSelection' = EditorSnapshot(d, sel)
     /\ out' = [Quiet(op) EXCEPT !.branch = "done", !.args = args,
                  !.inserted = content,
                  !.emitted = em, !.notified = Fanout(listeners, em)]

\* HtmlEditorControlApi.replaceSelectionRich(text, html), lines 327-339
HReplaceSelectionRich(text, markup) ==
  /\ IF Trim(markup) = <<>> /\ Trim(text) = <<>>
     THEN /\ out' = [Thrown("replaceSelectionRich", EmptyContentError)
                       EXCEPT !.args = <<text, markup>>]
          /\ UNCHANGED <<lastSelection, edSel, doc>>
     ELSE ContentInserted("replaceSelectionRich", <<text, markup>>,
                          RichContent(text, markup))
  /\ UNCHANGED <<listeners, editorOn>>
  /\ UNCHANGED <<mountVars, clock, html, pluginVars, ooVars>>

\* a public method of OnlyOfficeControlApi that throws before request()
OOThrown(op, args, error) ==
  /\ out' = [Thrown(op, error) EXCEPT !.args = args]
  /\ UNCHANGED <<requestMap, timers, promise>>

\* OnlyOfficeControlApi.replaceSelectionRich(text, html), part_011 lines 142-147
OOReplaceSelectionRich(text, markup) ==
  /\ IF Trim(text) = <<>> /\ Trim(markup) = <<>>
     THEN OOThrown("replaceSelectionRich", <<text, markup>>, EmptyContentError)
     ELSE RequestWith("replaceSelectionRich", <<text, markup>>, "replaceSelection",
                      Payload(Trim(text), Trim(markup), ""))
  /\ UNCHANGED <<messageHandler, pluginReady, bridgeWindow, selectionListeners,
                 latestSelection, initPc, frame>>
  /\ UNCHANGED <<mountVars, clock, html, pluginVars, htmlVars>>

\* OnlyOfficeControlApi.runMacro1HighlightDocument(text, color), part_011
\* lines 149-157
OORunMacro1HighlightDocument(text, color) ==
  /\ IF Trim(text) = <<>>
     THEN OOThrown("runMacro1HighlightDocument", <<text, color>>, EmptyTermError)
     ELSE RequestWith("runMacro1HighlightDocument", <<text, color>>,
                      "macro1HighlightDocument",
                      Payload(Trim(text), NoText, color))
  /\ UNCHANGED <<messageHandler, pluginReady, bridgeWindow, selectionListeners,
                 latestSelection, initPc, frame>>
  /\ UNCHANGED <<mountVars, clock, html, pluginVars, htmlVars>>

\* OnlyOfficeControlApi.clearMacro1HighlightDocument(text), part_011 lines
\* 159-164
OOClearMacro1HighlightDocument(text) ==
  /\ IF Trim(text) = <<>>
     THEN OOThrown("clearMacro1HighlightDocument", <<text>>, EmptyClearTermError)
     ELSE RequestWith("clearMacro1HighlightDocument", <<text>>,
                      "macro1ClearHighlightDocument",
                      Payload(Trim(text), NoText, ""))
  /\ UNCHANGED <<messageHandler, pluginReady, bridgeWindow, selectionListeners,
                 latestSelection, initPc, frame>>
  /\ UNCHANGED <<mountVars, clock, html, pluginVars, htmlVars>>

----------------------------------------------------------------------------
\* Manual numbering of the selected paragraphs.

\* String(n) for 0 <= n
Digit(k) == <<"0", "1", "2", "3", "4", "5", "6", "7", "8", "9">>[k + 1]
RECURSIVE DecimalString(_)
DecimalString(n) ==
  IF n < 10 THEN <<Digit(n)>> ELSE DecimalString(n \div 10) \o <<Digit(n % 10)>>

\* String.prototype.padStart(len, fill)
RECURSIVE PadStart(_, _, _)
PadStart(str, len, fill) ==
  IF Len(str) >= len THEN str ELSE PadStart(<<fill>> \o str, len, fill)

SpacingModes == {"normal_single", "normal_double", "nbsp_single", "nbsp_double"}

\* SPACING_SUFFIX_MAP[spacingMode], lines 110-115 (<<>> for no entry)
SPACING_SUFFIX_MAP(spacingMode) ==
  IF spacingMode = "normal_single" THEN <<" ">>
  ELSE IF spacingMode = "normal_double" THEN <<" ", " ">>
  ELSE IF spacingMode = "nbsp_single" THEN <<NBSP>>
  ELSE IF spacingMode = "nbsp_double" THEN <<NBSP, NBSP>>
  ELSE <<>>

\* the suffix of runMacro2ManualNumberingSelection, line 399
Suffix(spacingMode) ==
  IF SPACING_SUFFIX_MAP(spacingMode) # <<>> THEN SPACING_SUFFIX_MAP(spacingMode)
  ELSE SPACING_SUFFIX_MAP("nbsp_double")

\* useLeadingZero with the threshold one paragraph later
UseLeadingZeroFromEleven(count) == count > 10

\* useLeadingZero, line 400 (and OnlyOfficeEditor.tsx line 1358)
UseLeadingZero(count) == count > 9

\* the prefix of item itemNumber of count items, lines 405-407
NumberPrefix(itemNumber, count, suffix) ==
  (IF UseLeadingZero(count) THEN PadStart(DecimalString(itemNumber), 2, "0")
   ELSE DecimalString(itemNumber))
    \o <<".">> \o suffix

\* has the paragraph text left after trim()
HasText(para) == Trim(ParaText(para)) # <<>>

\* selectedParagraphStarts, lines 388-393: the position after the start of
\* every paragraph nodesBetween visits that has text
SelectedParagraphStarts(d, sel) ==
  LET ks == SelectSeq(VisitedParagraphs(d, sel.from, sel.to), LAMBDA k : HasText(d[k]))
  IN [i \in 1..Len(ks) |-> ParaPos(d, ks[i]) + 1]

\* the order of the insertions, first item first
InsertionOrderTopDown(count) == [j \in 1..count |-> j]

\* the order of the insertions, line 404: last item first
InsertionOrder(count) == [j \in 1..count |-> count + 1 - j]

\* the document of the transaction after the insertions order[j..] were
\* made at the collected positions, lines 404-408
RECURSIVE InsertPrefixes(_, _, _, _, _)
InsertPrefixes(d, starts, order, j, suffix) ==
  IF j > Len(order) THEN d
  ELSE InsertPrefixes(
         InsertText(d, NumberPrefix(order[j], Len(starts), suffix), starts[order[j]]),
         starts, order, j + 1, suffix)

\* a position of the old document mapped through the insertions
RECURSIVE Shift(_, _, _, _)
Shift(q, starts, i, suffix) ==
  IF i > Len(starts) THEN 0
  ELSE (IF starts[i] <= q THEN Len(NumberPrefix(i, Len(starts), suffix)) ELSE 0)
       + Shift(q, starts, i + 1, suffix)
Mapped(q, starts, suffix) == q + Shift(q, starts, 1, suffix)

\* Selection.near of a position of document d
Near(d, q) == IF q \in TextPositions(d) THEN q ELSE DocSize(d) - 1

\* the selection of the transaction: mapped through the insertions;
\* insertText puts the cursor at the end of a selection that is not empty
SelectionAfterNumbering(d, sel, starts, suffix) ==
  IF Empty(sel) THEN Sel(Mapped(sel.from, starts, suffix), Mapped(sel.from, starts, suffix))
  ELSE Sel(Near(d, Mapped(sel.to, starts, suffix)), Near(d, Mapped(sel.to, starts, suffix)))

\* HtmlEditorControlApi.runMacro2ManualNumberingSelection(spacingMode), lines
\* 382-415
HRunMacro2ManualNumberingSelection(spacingMode) ==
  LET starts == SelectedParagraphStarts(doc, edSel)
      d == InsertPrefixes(doc, starts, InsertionOrder(Len(starts)), 1, Suffix(spacingMode))
      sel == SelectionAfterNumbering(d, edSel, starts, Suffix(spacingMode))
      em == CommandEmissions(d, sel, 0)
  IN /\ IF starts = <<>>
        THEN /\ out' = [Thrown("runMacro2ManualNumberingSelection", EmptySelectionError)
                          EXCEPT !.args = <<spacingMode>>]
             /\ UNCHANGED <<lastSelection, edSel, doc>>
        ELSE /\ doc' = d
             /\ edSel' = sel
             /\ lastSelection' = IF em # <<>> THEN EditorSnapshot(d, sel) ELSE lastSelection
             /\ out' = [Quiet("runMacro2ManualNumberingSelection") EXCEPT
                          !.branch = "done", !.args = <<spacingMode>>,
                          !.converted = Len(starts), !.hadNumbering = Len(starts),
                          !.emitted = em, !.notified = Fanout(listeners, em)]
     /\ UNCHANGED <<listeners, editorOn>>
     /\ UNCHANGED <<mountVars, clock, html, pluginVars, ooVars>>

----------------------------------------------------------------------------
\* Document statistics.

PAGE_SYMBOLS == 3000   \* characters of one estimated page

\* Math.ceil(a / b) for a >= 0, b > 0
CeilDiv(a, b) == (a + b - 1) \div b

\* Math.max
Max(a, b) == IF a >= b THEN a ELSE b

\* value.split(/\s+/).filter(Boolean).length: the places a word starts at
WordCount(value) ==
  Cardinality({i \in 1..Len(value) :
                 ~IsSpace(value[i]) /\ (i = 1 \/ IsSpace(value[i - 1]))})

\* value.replace(/\s+/g, "").length
SymbolCount(value) == Len(SelectSeq(value, LAMBDA c : ~IsSpace(c)))

\* value without the white space that is no line break
LineMarks(value) == SelectSeq(value, LAMBDA c : c = "\n" \/ ~IsSpace(c))

\* value.split(/\n+/).map(trim).filter(Boolean).length: the lines that hold
\* a character other than white space
LineCount(value) ==
  LET marks == LineMarks(value)
  IN Cardinality({i \in 1..Len(marks) :
                    marks[i] # "\n" /\ (i = 1 \/ marks[i - 1] = "\n")})

\* the pages estimate without the floor of one page
PagesRoundedDown(symbolsWithSpaces) == symbolsWithSpaces \div PAGE_SYMBOLS

\* the pages estimate, line 135
Pages(symbolsWithSpaces) ==
  IF symbolsWithSpaces > 0 THEN Max(1, CeilDiv(symbolsWithSpaces, PAGE_SYMBOLS)) ELSE 0

\* documentStatsFromText(text), lines 126-137
documentStatsFromText(text) ==
  [pages |-> Pages(Len(text)),
   paragraphs |-> IF Trim(text) # <<>> THEN LineCount(Trim(text)) ELSE 0,
   words |-> IF Trim(text) # <<>> THEN WordCount(Trim(text)) ELSE 0,
   symbols |-> SymbolCount(text),
   symbolsWithSpaces |-> Len(text)]

\* editor.getText({ blockSeparator: "\n" }): the paragraphs' texts, a line
\* break between one and the next
GetText(d) == TextBetween(d, 0, DocSize(d))

\* HtmlEditorControlApi.getDocumentStats(), lines 315-317
HGetDocumentStats ==
  /\ out' = [Quiet("getDocumentStats") EXCEPT !.branch = "done",
               !.stats = documentStatsFromText(GetText(doc))]
  /\ UNCHANGED htmlVars
  /\ UNCHANGED <<mountVars, clock, html, pluginVars, ooVars>>

----------------------------------------------------------------------------
\* The plugin inside the office editor's frame (the Remote Command Handler),
\* OnlyOfficeEditor.tsx lines 1108-1706.  The office document it edits is
\* doc, the selection of the office editor edSel.

\* event.data of a message event in the plugin's frame
PluginData(source, type, id, command, payload) ==
  [source |-> source, type |-> type, id |-> id, command |-> command, payload |-> payload]

\* no message event yet
NoData == PluginData("", "", 0, "", NoPayload)

\* send(type, payload), line 1115: the message posted to the page
PluginSend(type, payload) == [source |-> PLUGIN_SOURCE, type |-> type, payload |-> payload]

\* getSelectionSnapshot(), lines 1469-1477
getSelectionSnapshot(d, sel) ==
  Snapshot(IF Empty(sel) THEN <<>> ELSE TextBetween(d, sel.from, sel.to),
           IF Empty(sel) THEN "none" ELSE "text",
           DateNow)

\* buildInheritedHtml(payload, style), lines 1167-1187
buildInheritedHtml(payload) ==
  IF Trim(StringOr(payload.html)) = <<>> THEN <<>>
  ELSE <<DIV_OPEN>> \o Trim(StringOr(payload.html)) \o <<DIV_CLOSE>>

\* what the replaceSelection case hands to the office editor, lines 1643-1655:
\* PasteHtml of the inherited HTML when there is one, else PasteText of the
\* text; PasteText of the text when the try block threw (fails)
Pasted(payload, fails) ==
  IF ~fails /\ buildInheritedHtml(payload) # <<>>
  THEN [kind |-> "html", value |-> buildInheritedHtml(payload)]
  ELSE [kind |-> "text", value |-> StringOr(payload.text)]

\* emitSelectionIfChanged that compares with the last snapshot even when forced
NeverForced(force, d, sel, reads) ==
  IF reads /\ (\/ getSelectionSnapshot(d, sel).text # lastText
               \/ getSelectionSnapshot(d, sel).selectionType # lastSelectionType)
  THEN <<PluginSend("selectionChanged", getSelectionSnapshot(d, sel))>>
  ELSE <<>>

\* emitSelectionIfChanged(force), lines 1621-1632, for the document d and the
\* selection sel: the messages it sends.  reads: the editor answered the two
\* reads of the selection (a read that throws is ignored, nothing is sent)
emitSelectionIfChanged(force, d, sel, reads) ==
  IF reads /\ (\/ force
               \/ getSelectionSnapshot(d, sel).text # lastText
               \/ getSelectionSnapshot(d, sel).selectionType # lastSelectionType)
  THEN <<PluginSend("selectionChanged", getSelectionSnapshot(d, sel))>>
  ELSE <<>>

\* lastText and lastSelectionType after the messages `sent`, lines 1626-1627
Remembered(sent) ==
  /\ lastText' = IF sent = <<>> THEN lastText ELSE sent[1].payload.text
  /\ lastSelectionType' =
       IF sent = <<>> THEN lastSelectionType ELSE sent[1].payload.selectionType
  /\ lastSent' = IF sent = <<>> THEN lastSent ELSE sent[1].payload
  /\ UNCHANGED <<received, checks, pollTimer>>

\* The channel from the plugin's frame to the page, window.top.postMessage
\* of send(), lines 1115-1117: the messages posted and not yet dispatched at
\* the page, oldest first.  followed: the scenario follows the messages to
\* the page; where it does not, they are only in the output of the step
NotFollowed == [followed |-> FALSE, queue |-> <<>>]
Followed == [followed |-> TRUE, queue |-> <<>>]

\* the channel after send() was called for the messages of sent, in order
Channel(sent) ==
  wire' = IF wire.followed THEN [wire EXCEPT !.queue = @ \o sent] ELSE wire

\* RepliedAfter with the reply posted before the handler's own messages
RepliedBefore(emitted, reply) == <<reply>> \o emitted

\* the messages of the listener for a command whose handler sent emitted:
\* send("response", ...) follows `await handleCommand(...)`, lines 1681-1683
RepliedAfter(emitted, reply) == emitted \o <<reply>>

\* what a command that forces an emission met: did the editor answer the
\* reads of the selection, and the last snapshot sent before
Met(reads) ==
  [reads |-> reads, lastText |-> lastText, lastSelectionType |-> lastSelectionType]

\* the reply of the message listener to a command that returned result, line 1683
Response(id, result) == PluginSend("response", [id |-> id, result |-> result])

\* the reply of the message listener to a command that threw, line 1685
ErrorReply(id, message) == PluginSend("error", [id |-> id, message |-> message])

\* handleCommand("replaceSelection", payload) for the command message id,
\* lines 1642-1657, and the reply of the message listener, lines 1677-1687.
\* fails: getCurrentCursorTextStyle or PasteHtml threw
PluginReplaceSelectionReading(id, payload, fails, reads) ==
  LET content == Pasted(payload, fails)
      chars == InsertedChars(doc, edSel, content.value)
      d == ReplaceRange(doc, edSel.from, edSel.to, chars)
      sel == SelectionAfterInsert(edSel, chars)
      emitted == emitSelectionIfChanged(TRUE, d, sel, reads)
  IN /\ mounted = "onlyoffice"
     /\ doc' = d
     /\ edSel' = sel
     /\ Remembered(emitted)
     /\ Channel(RepliedAfter(emitted, Response(id, [ok |-> TRUE])))
     /\ out' = [Quiet("plugin:replaceSelection") EXCEPT
                  !.branch = IF fails THEN "fallback" ELSE "done",
                  !.id = id, !.args = <<payload, Met(reads)>>, !.inserted = content,
                  !.apiCalls = <<IF content.kind = "html" THEN "PasteHtml" ELSE "PasteText">>,
                  !.sent = RepliedAfter(emitted, Response(id, [ok |-> TRUE]))]
     /\ UNCHANGED <<listeners, lastSelection, editorOn>>
     /\ UNCHANGED <<mountVars, clock, html, ooVars>>

\* the same when the editor answers the reads of the selection
PluginReplaceSelection(id, payload, fails) ==
  PluginReplaceSelectionReading(id, payload, fails, TRUE)

\* Asc.scope.macro2SpacingMode, line 1328: handleCommand calls
\* macro2ManualNumberingSelection() without the payload, line 1669
Macro2SpacingMode == "nbsp_double"

\* the spacingMode of the payload handleCommand passes on to
\* macro2ManualNumberingSelection, line 1669: it passes no payload ("" here)
PassedSpacingMode(requested) == ""

\* String((payload || {}).spacingMode || "nbsp_double"), line 1328
ScopeSpacingMode(passed) == IF passed = "" THEN Macro2SpacingMode ELSE passed

\* the suffix the plugin's numbering builds, lines 1359-1362
PluginSuffix(spacingMode) ==
  [i \in 1..(IF spacingMode \in {"normal_double", "nbsp_double"} THEN 2 ELSE 1) |->
     IF spacingMode \in {"nbsp_single", "nbsp_double"} THEN NBSP ELSE " "]

\* the paragraphs the document API reports as selected, lines 1336-1349:
\* those the selection touches; none when the API offers none of the calls
SelectedParagraphs(d, sel, offered) ==
  IF offered THEN VisitedParagraphs(d, sel.from, sel.to) ELSE <<>>

\* the index of paragraph k in the sequence ks (0 when it is not in it)
IndexIn(ks, k) == IF \E i \in 1..Len(ks) : ks[i] = k
                  THEN CHOOSE i \in 1..Len(ks) : ks[i] = k ELSE 0

\* the office document after AddText(prefix) at the start of every paragraph
\* of ks, lines 1364-1398
PrefixedParagraphs(d, ks, suffix) ==
  [k \in 1..Len(d) |->
     IF IndexIn(ks, k) = 0 THEN d[k]
     ELSE [i \in 1..Len(NumberPrefix(IndexIn(ks, k), Len(ks), suffix)) |->
             Ch(NumberPrefix(IndexIn(ks, k), Len(ks), suffix)[i],
                InheritedColor(d, ParaPos(d, k) + 1))] \o d[k]]

NoParagraphsMessage == "Selecione uma lista numerada no documento."

\* macro2ManualNumberingSelection() for the command message id, lines
\* 1327-1410, and the reply of the message listener, lines 1677-1687.
\* requested: the spacingMode of the command's payload ("" for none);
\* offered: the document API offers a way to read the selected paragraphs
PluginMacro2Command(id, requested, offered) ==
  LET ks == SelectedParagraphs(doc, edSel, offered)
      suffix == PluginSuffix(ScopeSpacingMode(PassedSpacingMode(requested)))
      starts == [i \in 1..Len(ks) |-> ParaPos(doc, ks[i]) + 1]
  IN /\ mounted = "onlyoffice"
     /\ IF ks = <<>>
        THEN /\ out' = [Quiet("plugin:macro2ManualNumberingSelection") EXCEPT
                          !.branch = "error", !.id = id, !.args = <<requested>>,
                          !.sent = <<PluginSend("error",
                                       [id |-> id, message |-> NoParagraphsMessage])>>]
             /\ UNCHANGED <<edSel, doc>>
        ELSE /\ doc' = PrefixedParagraphs(doc, ks, suffix)
             /\ edSel' = Sel(Mapped(edSel.from, starts, suffix),
                             Mapped(edSel.to, starts, suffix))
             /\ out' = [Quiet("plugin:macro2ManualNumberingSelection") EXCEPT
                          !.branch = "done", !.id = id, !.args = <<requested>>,
                          !.converted = Len(ks), !.hadNumbering = 0,
                          !.sent = <<PluginSend("response",
                                       [id |-> id,
                                        result |-> [ok |-> TRUE, converted |-> Len(ks),
                                                    hadNumbering |-> 0]])>>]
     /\ UNCHANGED <<listeners, lastSelection, editorOn>>
     /\ UNCHANGED <<mountVars, clock, html, pluginVars, ooVars>>

\* the command with a payload that names no spacingMode
PluginMacro2ManualNumberingSelection(id, offered) == PluginMacro2Command(id, "", offered)

\* Number(stats.A || stats.B || ... || 0), lines 1517-1548: values holds the
\* fields of the names the code reads, in the order it reads them
FirstTruthy(values) ==
  IF \E i \in 1..Len(values) : Truthy(values[i])
  THEN values[CHOOSE i \in 1..Len(values) :
                Truthy(values[i]) /\ \A j \in 1..(i - 1) : ~Truthy(values[j])].n
  ELSE 0

\* the object no field of which is set
NoStatistics ==
  [words |-> <<>>, paragraphs |-> <<>>, symbols |-> <<>>, symbolsWithSpaces |-> <<>>]

\* the figures read from doc.GetStatistics(), lines 1515-1549; all 0 when the
\* document offers no GetStatistics
NativeStats(host) ==
  LET stats == IF host.GetStatistics THEN host.statistics ELSE NoStatistics
  IN [pages |-> IF host.GetPageCount /\ Truthy(host.pageCount) THEN host.pageCount.n ELSE 0,
      paragraphs |-> FirstTruthy(stats.paragraphs),
      words |-> FirstTruthy(stats.words),
      symbols |-> FirstTruthy(stats.symbols),
      symbolsWithSpaces |-> FirstTruthy(stats.symbolsWithSpaces)]

\* the trimmed texts of the paragraphs that hold more than white space
TrimmedTexts(d) ==
  SelectSeq([k \in 1..Len(d) |-> Trim(ParaText(d[k]))], LAMBDA t : t # <<>>)

\* the sum of the numbers of a sequence
RECURSIVE Sum(_)
Sum(numbers) == IF numbers = <<>> THEN 0 ELSE Head(numbers) + Sum(Tail(numbers))

\* the figures counted over doc.GetAllParagraphs(), lines 1551-1566
ParagraphFallback(d) ==
  LET texts == TrimmedTexts(d)
  IN [pages |-> 0,
      paragraphs |-> Len(texts),
      words |-> Sum([i \in 1..Len(texts) |-> WordCount(texts[i])]),
      symbols |-> Sum([i \in 1..Len(texts) |-> SymbolCount(texts[i])]),
      symbolsWithSpaces |-> Sum([i \in 1..Len(texts) |-> Len(texts[i])])]

\* the figures counted over the trimmed doc.GetText(), lines 1579-1594
TextFallback(text) ==
  [pages |-> 0, paragraphs |-> LineCount(text), words |-> WordCount(text),
   symbols |-> SymbolCount(text), symbolsWithSpaces |-> Len(text)]

\* if (x <= 0) x = fallback
OrFallback(x, fallback) == IF x <= 0 THEN fallback ELSE x

\* x > 0 ? x : 0
Positive(x) == IF x > 0 THEN x ELSE 0

\* the result of the document command of getDocumentStats(), lines 1500-1608
CountedStats(d, host) ==
  LET native == NativeStats(host)
      text == Trim(GetText(d))
      fallback == IF host.GetAllParagraphs THEN ParagraphFallback(d)
                  ELSE IF host.GetText /\ text # <<>> THEN TextFallback(text)
                  ELSE native
  IN [pages |-> Positive(native.pages),
      paragraphs |-> Positive(OrFallback(native.paragraphs, fallback.paragraphs)),
      words |-> Positive(OrFallback(native.words, fallback.words)),
      symbols |-> Positive(OrFallback(native.symbols, fallback.symbols)),
      symbolsWithSpaces |->
        Positive(OrFallback(native.symbolsWithSpaces, fallback.symbolsWithSpaces))]

\* the methods of the document getDocumentStats() calls, lines 1502-1580
StatsCalls(host) ==
  <<"GetDocument">>
  \o (IF host.GetPageCount THEN <<"GetPageCount">> ELSE <<>>)
  \o (IF host.GetStatistics THEN <<"GetStatistics">> ELSE <<>>)
  \o (IF host.GetAllParagraphs THEN <<"GetAllParagraphs">>
      ELSE IF host.GetText THEN <<"GetText">> ELSE <<>>)

NoDocumentMessage == "Documento indisponivel."

\* the figures as the reply carries them: Number(result.pages || 0), ...,
\* lines 1613-1619
StatsResult(stats) ==
  [pages |-> JsNum(stats.pages), paragraphs |-> JsNum(stats.paragraphs),
   words |-> JsNum(stats.words), symbols |-> JsNum(stats.symbols),
   symbolsWithSpaces |-> JsNum(stats.symbolsWithSpaces)]

\* getDocumentStats() for the command message id, lines 1499-1620, and the
\* reply of the message listener, lines 1677-1687.  host: what the office
\* editor's document offers and reports
PluginGetDocumentStats(id, host) ==
  /\ mounted = "onlyoffice"
  /\ IF host.noDocument
     THEN out' = [Quiet("plugin:getDocumentStats") EXCEPT
                    !.branch = "error", !.id = id, !.args = <<host>>,
                    !.apiCalls = <<"GetDocument">>,
                    !.sent = <<PluginSend("error",
                                 [id |-> id, message |-> NoDocumentMessage])>>]
     ELSE out' = [Quiet("plugin:getDocumentStats") EXCEPT
                    !.branch = "done", !.id = id, !.args = <<host>>,
                    !.stats = CountedStats(doc, host),
                    !.apiCalls = StatsCalls(host),
                    !.sent = <<PluginSend("response",
                                 [id |-> id,
                                  result |-> StatsResult(CountedStats(doc, host))])>>]
  /\ UNCHANGED htmlVars
  /\ UNCHANGED <<mountVars, clock, html, pluginVars, ooVars>>

\* err.message || "Erro no plugin.", line 1685, for an editor method that threw
\* an error without a message
PluginErrorMessage == "Erro no plugin."

\* handleCommand("getSelectedText") for the command message id, lines
\* 1636-1637, and the reply of the message listener.  throws: the editor
\* method threw
PluginGetSelectedText(id, throws) ==
  /\ mounted = "onlyoffice"
  /\ out' = [Quiet("plugin:getSelectedText") EXCEPT
               !.branch = IF throws THEN "error" ELSE "done", !.id = id,
               !.apiCalls = <<"GetSelectedText">>,
               !.sent = IF throws THEN <<ErrorReply(id, PluginErrorMessage)>>
                        ELSE <<Response(id, getSelectionSnapshot(doc, edSel).text)>>]
  /\ UNCHANGED htmlVars
  /\ UNCHANGED <<mountVars, clock, html, pluginVars, ooVars>>

\* handleCommand("selectAllContent") for the command message id, lines
\* 1638-1641, and the reply of the message listener.  throws: SelectAll threw
PluginSelectAllContent(id, throws, reads) ==
  LET sel == IF throws THEN edSel ELSE Sel(0, DocSize(doc))
      emitted == IF throws THEN <<>> ELSE emitSelectionIfChanged(TRUE, doc, sel, reads)
      sent == IF throws THEN <<ErrorReply(id, PluginErrorMessage)>>
              ELSE RepliedAfter(emitted, Response(id, [ok |-> TRUE]))
  IN /\ mounted = "onlyoffice"
     /\ edSel' = sel
     /\ Remembered(emitted)
     /\ Channel(sent)
     /\ out' = [Quiet("plugin:selectAllContent") EXCEPT
                  !.branch = IF throws THEN "error" ELSE "done", !.id = id,
                  !.args = <<Met(reads)>>,
                  !.apiCalls = <<"SelectAll">>,
                  !.sent = sent]
     /\ UNCHANGED <<listeners, lastSelection, editorOn, doc>>
     /\ UNCHANGED <<mountVars, clock, html, ooVars>>

\* handleCommand("refreshSelection") for the command message id, lines
\* 1658-1660, and the reply of the message listener
PluginRefreshSelection(id, reads) ==
  LET emitted == emitSelectionIfChanged(TRUE, doc, edSel, reads)
  IN /\ mounted = "onlyoffice"
     /\ Remembered(emitted)
     /\ Channel(RepliedAfter(emitted, Response(id, [ok |-> TRUE])))
     /\ out' = [Quiet("plugin:refreshSelection") EXCEPT
                  !.branch = "done", !.id = id, !.args = <<Met(reads)>>,
                  !.apiCalls = <<"GetSelectionType">>,
                  !.sent = RepliedAfter(emitted, Response(id, [ok |-> TRUE]))]
     /\ UNCHANGED htmlVars
     /\ UNCHANGED <<mountVars, clock, html, ooVars>>

\* One call of emitSelectionIfChanged(force) step by step: it is suspended
\* at each of the two awaits of getSelectionSnapshot, lines 1471-1472, and
\* other calls, and the user, act in between.

\* a call that is not running
IdleCheck == [pc |-> "idle", force |-> FALSE, selectionType |-> "", text |-> <<>>]

\* no selectionChanged message was posted yet
NothingSent == Snapshot(<<>>, "", 0)

\* `changed` that is true whatever the last snapshot was
AlwaysChanged(force, snapshot) == TRUE

\* const changed = force || snapshot.text !== lastText
\*                       || snapshot.selectionType !== lastSelectionType, line 1624
SnapshotChanged(force, snapshot) ==
  force \/ snapshot.text # lastText \/ snapshot.selectionType # lastSelectionType

\* a step of call c that posts nothing
CheckStep(c, branch, after) ==
  /\ mounted = "onlyoffice"
  /\ checks' = [checks EXCEPT ![c] = after]
  /\ out' = [Quiet("plugin:emitSelectionIfChanged") EXCEPT
               !.branch = branch, !.id = c, !.args = <<after.force>>]
  /\ UNCHANGED <<lastText, lastSelectionType, received, lastSent, wire, pollTimer>>
  /\ UNCHANGED htmlVars
  /\ UNCHANGED <<mountVars, clock, html, ooVars>>

\* the poll timer, onExternalMouseUp (force false), Asc.plugin.init or a
\* command (force true) calls emitSelectionIfChanged, lines 1621-1623, 1689-1699:
\* it runs up to exec("GetSelectionType") and is suspended
EmitBegin(c, force) ==
  /\ checks[c].pc = "idle"
  /\ CheckStep(c, "called", [IdleCheck EXCEPT !.pc = "type", !.force = force])

\* the editor answers GetSelectionType, line 1471; the call goes on to
\* exec("GetSelectedText") and is suspended
EmitReadType(c) ==
  /\ checks[c].pc = "type"
  /\ CheckStep(c, "type",
               [checks[c] EXCEPT !.pc = "text",
                  !.selectionType = getSelectionSnapshot(doc, edSel).selectionType])

\* the editor answers GetSelectedText, line 1472
EmitReadText(c) ==
  /\ checks[c].pc = "text"
  /\ CheckStep(c, "text",
               [checks[c] EXCEPT !.pc = "read",
                  !.text = getSelectionSnapshot(doc, edSel).text])

\* the call resumes with both answers, lines 1473-1628: it builds the
\* snapshot, compares it with the last one and posts it
EmitFinish(c) ==
  LET snapshot == Snapshot(checks[c].text, checks[c].selectionType, DateNow)
      emitted == IF SnapshotChanged(checks[c].force, snapshot)
                 THEN <<PluginSend("selectionChanged", snapshot)>> ELSE <<>>
  IN /\ mounted = "onlyoffice"
     /\ checks[c].pc = "read"
     /\ checks' = [checks EXCEPT ![c] = IdleCheck]
     /\ lastText' = IF emitted = <<>> THEN lastText ELSE snapshot.text
     /\ lastSelectionType' = IF emitted = <<>> THEN lastSelectionType ELSE snapshot.selectionType
     /\ lastSent' = IF emitted = <<>> THEN lastSent ELSE snapshot
     /\ out' = [Quiet("plugin:emitSelectionIfChanged") EXCEPT
                  !.branch = IF emitted = <<>> THEN "same" ELSE "changed",
                  !.id = c, !.args = <<checks[c].force>>, !.sent = emitted]
     /\ Channel(emitted)
     /\ UNCHANGED <<received, pollTimer>>
     /\ UNCHANGED htmlVars
     /\ UNCHANGED <<mountVars, clock, html, ooVars>>

\* the poll timer and onExternalMouseUp, lines 1692-1699:
\* emitSelectionIfChanged(false)
PluginPoll(reads) ==
  LET emitted == emitSelectionIfChanged(FALSE, doc, edSel, reads)
  IN /\ mounted = "onlyoffice"
     /\ Remembered(emitted)
     /\ Channel(emitted)
     /\ out' = [Quiet("plugin:poll") EXCEPT
                  !.branch = IF emitted = <<>> THEN "same" ELSE "changed",
                  !.apiCalls = <<"GetSelectionType">>, !.sent = emitted]
     /\ UNCHANGED htmlVars
     /\ UNCHANGED <<mountVars, clock, html, ooVars>>

NoPageCountMessage == "Metodo GetPageCount indisponivel."

\* getDocumentPageCount() for the command message id, lines 1479-1497, and
\* the reply of the message listener
PluginGetDocumentPageCount(id, host) ==
  /\ mounted = "onlyoffice"
  /\ IF host.noDocument \/ ~host.GetPageCount
     THEN out' = [Quiet("plugin:getDocumentPageCount") EXCEPT
                    !.branch = "error", !.id = id, !.args = <<host>>,
                    !.apiCalls = <<"GetDocument">>,
                    !.sent = <<ErrorReply(id, NoPageCountMessage)>>]
     ELSE out' = [Quiet("plugin:getDocumentPageCount") EXCEPT
                    !.branch = "done", !.id = id, !.args = <<host>>,
                    !.apiCalls = <<"GetDocument", "GetPageCount">>,
                    !.sent = <<Response(id, JsNum(Positive(NativeStats(host).pages)))>>]
  /\ UNCHANGED htmlVars
  /\ UNCHANGED <<mountVars, clock, html, pluginVars, ooVars>>

\* the characters parseTermsFromInput splits at, line 1199: /[\s,;|]+/
IsSeparator(c) == IsSpace(c) \/ c \in {",", ";", "|"}

\* the length of the run of characters before the first separator of value
RunLength(value) ==
  IF \E i \in 1..Len(value) : IsSeparator(value[i])
  THEN (CHOOSE i \in 1..Len(value) :
          IsSeparator(value[i]) /\ \A j \in 1..(i - 1) : ~IsSeparator(value[j])) - 1
  ELSE Len(value)

\* raw.split(/[\s,;|]+/g).map(trim).filter(Boolean), line 1199
RECURSIVE Pieces(_)
Pieces(value) ==
  IF value = <<>> THEN <<>>
  ELSE IF IsSeparator(Head(value)) THEN Pieces(Tail(value))
  ELSE <<SubSeq(value, 1, RunLength(value))>>
         \o Pieces(SubSeq(value, RunLength(value) + 1, Len(value)))

\* toLocaleLowerCase()
Folded(text) == [i \in 1..Len(text) |-> FoldCase(text[i])]

\* parseTermsFromInput(value), lines 1196-1209: the pieces, without those that
\* repeat an earlier one in another case
parseTermsFromInput(value) ==
  LET pieces == Pieces(Trim(StringOr(value)))
      kept == SelectSeq([i \in 1..Len(pieces) |-> i],
                        LAMBDA i : \A j \in 1..(i - 1) : Folded(pieces[j]) # Folded(pieces[i]))
  IN [k \in 1..Len(kept) |-> pieces[kept[k]]]

\* the pattern of doc.Search(term, false): the characters of the term, any case
LiteralAtoms(term) == [i \in 1..Len(term) |-> [any |-> FALSE, c |-> term[i]]]

\* doc.Search(term, false) in paragraph k: where the ranges start
SearchOffsets(d, k, term) == MatchOffsets(LiteralAtoms(term), ParaText(d[k]), 1)

\* is character i of paragraph k inside a range doc.Search found for a term
InRange(d, k, i, terms) ==
  \E t \in 1..Len(terms) : \E o \in 1..Len(ParaText(d[k])) :
    /\ \E x \in 1..Len(SearchOffsets(d, k, terms[t])) : SearchOffsets(d, k, terms[t])[x] = o
    /\ o <= i /\ i < o + Len(terms[t])

\* the document after range.SetHighlight(color) on every range of every term,
\* lines 1233-1255
Highlighted(d, terms, color) ==
  [k \in 1..Len(d) |->
     [i \in 1..Len(d[k]) |->
        IF InRange(d, k, i, terms) THEN Ch(d[k][i].c, color) ELSE d[k][i]]]

\* matches += ranges.length over the terms, lines 1236-1238
SearchMatches(d, terms) ==
  Sum([t \in 1..Len(terms) |->
         Sum([k \in 1..Len(d) |-> Len(SearchOffsets(d, k, terms[t]))])])

\* the document after SetHighlight(color) on the ranges of the terms, the
\* ranges in the paragraphs `broken` left out: for those SetHighlight throws
\* or the range offers no way to set the highlight, lines 1239-1254
HighlightedUnless(d, terms, color, broken) ==
  [k \in 1..Len(d) |-> IF k \in broken THEN d[k] ELSE Highlighted(d, terms, color)[k]]

\* RangesMarked that counts the ranges tried
RangesTried(d, terms, broken) == SearchMatches(d, terms)

\* highlighted += 1 (cleared += 1) for every range that was set, lines
\* 1242 and 1250 (1294 and 1302)
RangesMarked(d, terms, broken) ==
  Sum([t \in 1..Len(terms) |->
         Sum([k \in 1..Len(d) |->
                IF k \in broken THEN 0 ELSE Len(SearchOffsets(d, k, terms[t]))])])

NoTermsMessage == "Informe ao menos 1 termo no campo Texto de entrada."

\* String(payload.color || "").trim().toLowerCase() || "yellow", line 1215
PluginHighlightColor(color) == IF color = "" THEN "yellow" ELSE color

\* highlightTermsAcrossDocument(payload) for the command message id, lines
\* 1211-1265, and the reply of the message listener
\* broken: the paragraphs whose ranges cannot be set
PluginHighlightTerms(id, payload, broken) ==
  LET terms == parseTermsFromInput(payload.text)
      color == PluginHighlightColor(payload.color)
  IN /\ mounted = "onlyoffice"
     /\ IF terms = <<>>
        THEN /\ out' = [Quiet("plugin:macro1HighlightDocument") EXCEPT
                          !.branch = "error", !.id = id, !.args = <<payload, broken>>,
                          !.sent = <<ErrorReply(id, NoTermsMessage)>>]
             /\ UNCHANGED doc
        ELSE /\ doc' = HighlightedUnless(doc, terms, color, broken)
             /\ out' = [Quiet("plugin:macro1HighlightDocument") EXCEPT
                          !.branch = "done", !.id = id, !.args = <<payload, broken>>,
                          !.matches = SearchMatches(doc, terms),
                          !.highlighted = RangesMarked(doc, terms, broken),
                          !.apiCalls = <<"GetDocument", "Search">>,
                          !.sent = <<Response(id,
                                       [ok |-> TRUE, terms |-> Len(terms),
                                        matches |-> SearchMatches(doc, terms),
                                        highlighted |-> RangesMarked(doc, terms, broken),
                                        color |-> color])>>]
     /\ UNCHANGED <<listeners, lastSelection, editorOn, edSel>>
     /\ UNCHANGED <<mountVars, clock, html, pluginVars, ooVars>>

\* the command on a document all of whose ranges can be set
PluginMacro1HighlightDocument(id, payload) == PluginHighlightTerms(id, payload, {})

\* clearTermsHighlightAcrossDocument(payload) for the command message id,
\* lines 1267-1325, and the reply of the message listener
\* broken: the paragraphs whose ranges cannot be set
PluginClearTerms(id, payload, broken) ==
  LET terms == parseTermsFromInput(payload.text)
  IN /\ mounted = "onlyoffice"
     /\ IF terms = <<>>
        THEN /\ out' = [Quiet("plugin:macro1ClearHighlightDocument") EXCEPT
                          !.branch = "error", !.id = id, !.args = <<payload, broken>>,
                          !.sent = <<ErrorReply(id, NoTermsMessage)>>]
             /\ UNCHANGED doc
        ELSE /\ doc' = HighlightedUnless(doc, terms, "", broken)
             /\ out' = [Quiet("plugin:macro1ClearHighlightDocument") EXCEPT
                          !.branch = "done", !.id = id, !.args = <<payload, broken>>,
                          !.matches = SearchMatches(doc, terms),
                          !.cleared = RangesMarked(doc, terms, broken),
                          !.apiCalls = <<"GetDocument", "Search">>,
                          !.sent = <<Response(id,
                                       [ok |-> TRUE, terms |-> Len(terms),
                                        matches |-> SearchMatches(doc, terms),
                                        cleared |-> RangesMarked(doc, terms, broken)])>>]
     /\ UNCHANGED <<listeners, lastSelection, editorOn, edSel>>
     /\ UNCHANGED <<mountVars, clock, html, pluginVars, ooVars>>

\* the command on a document all of whose ranges can be set
PluginMacro1ClearHighlightDocument(id, payload) == PluginClearTerms(id, payload, {})

\* macro2ManualNumberingPreviewSelection() for the command message id, lines
\* 1412-1468, and the reply of the message listener
PluginMacro2ManualNumberingPreviewSelection(id, offered) ==
  LET ks == SelectedParagraphs(doc, edSel, offered)
  IN /\ mounted = "onlyoffice"
     /\ out' = IF ks = <<>>
               THEN [Quiet("plugin:macro2ManualNumberingPreviewSelection") EXCEPT
                       !.branch = "error", !.id = id,
                       !.apiCalls = <<"GetDocument">>,
                       !.sent = <<ErrorReply(id, NoParagraphsMessage)>>]
               ELSE [Quiet("plugin:macro2ManualNumberingPreviewSelection") EXCEPT
                       !.branch = "done", !.id = id,
                       !.converted = Len(ks),
                       !.apiCalls = <<"GetDocument">>,
                       !.sent = <<Response(id, [ok |-> TRUE, wouldConvert |-> Len(ks),
                                                hadNumbering |-> 0])>>]
     /\ UNCHANGED htmlVars
     /\ UNCHANGED <<mountVars, clock, html, pluginVars, ooVars>>

\* The two copies of the plugin's source: the one served with the editor
\* page (OnlyOfficeEditor.tsx lines 1108-1706) and the server's template
\* (server/plugin.template.js).
Handlers == {"editor", "template"}

\* the commands the template's handleCommand has a case for,
\* plugin.template.js lines 114-139
TemplateCommands ==
  {"getSelectedText", "selectAllContent", "replaceSelection", "refreshSelection"}

\* the commands the editor page's handleCommand has a case for, lines 1635-1672
EditorCommands ==
  TemplateCommands \cup
  {"getDocumentPageCount", "getDocumentStats", "macro1HighlightDocument",
   "macro1ClearHighlightDocument", "macro2ManualNumberingSelection",
   "macro2ManualNumberingPreviewSelection"}

\* the cases of the switch of handleCommand
DispatchTable(handler) ==
  IF handler = "template" THEN TemplateCommands ELSE EditorCommands

\* throw new Error("Comando nao suportado: " + command), line 1674 and
\* plugin.template.js line 140
UnsupportedMessage(command) == "Comando nao suportado: " \o command

\* Accepted without the check of the message type
AcceptedAnyType(data) == data.source = APP_SOURCE

\* if (data.source !== APP_SOURCE || data.type !== "command") return, line 1679
\* and plugin.template.js line 146
Accepted(data) == data.source = APP_SOURCE /\ data.type = "command"

\* the message listener of the plugin, lines 1677-1687 and plugin.template.js
\* lines 144-154, with handleCommand, lines 1634-1675 and 113-142.  env: how
\* the office editor behaves during the command
PluginMessage(handler, data, env) ==
  IF ~Accepted(data) THEN
    /\ mounted = "onlyoffice"
    /\ out' = [Quiet("plugin:message") EXCEPT !.branch = "ignored",
                 !.args = <<handler, data>>]
    /\ UNCHANGED htmlVars
    /\ UNCHANGED <<mountVars, clock, html, pluginVars, ooVars>>
  ELSE IF data.command \notin DispatchTable(handler) THEN
    /\ mounted = "onlyoffice"
    /\ out' = [Quiet("plugin:message") EXCEPT !.branch = "unsupported",
                 !.id = data.id, !.args = <<handler, data>>,
                 !.sent = <<ErrorReply(data.id, UnsupportedMessage(data.command))>>]
    /\ UNCHANGED htmlVars
    /\ UNCHANGED <<mountVars, clock, html, pluginVars, ooVars>>
  ELSE IF data.command = "getSelectedText" THEN
    PluginGetSelectedText(data.id, env.throws)
  ELSE IF data.command = "selectAllContent" THEN
    PluginSelectAllContent(data.id, env.throws, env.reads)
  ELSE IF data.command = "replaceSelection" THEN
    PluginReplaceSelectionReading(data.id, data.payload, env.fails, env.reads)
  ELSE IF data.command = "refreshSelection" THEN
    PluginRefreshSelection(data.id, env.reads)
  ELSE IF data.command = "getDocumentPageCount" THEN
    PluginGetDocumentPageCount(data.id, env.host)
  ELSE IF data.command = "getDocumentStats" THEN
    PluginGetDocumentStats(data.id, env.host)
  ELSE IF data.command = "macro1HighlightDocument" THEN
    PluginMacro1HighlightDocument(data.id, data.payload)
  ELSE IF data.command = "macro1ClearHighlightDocument" THEN
    PluginMacro1ClearHighlightDocument(data.id, data.payload)
  ELSE IF data.command = "macro2ManualNumberingSelection" THEN
    PluginMacro2ManualNumberingSelection(data.id, env.offered)
  ELSE
    PluginMacro2ManualNumberingPreviewSelection(data.id, env.offered)

\* a message event in the plugin's frame carrying data
PluginReceive(data) ==
  /\ mounted = "onlyoffice"
  /\ received' = data
  /\ out' = [Quiet("plugin:receive") EXCEPT !.id = data.id, !.args = <<data>>]
  /\ UNCHANGED <<lastText, lastSelectionType, checks, lastSent, wire, pollTimer>>
  /\ UNCHANGED htmlVars
  /\ UNCHANGED <<mountVars, clock, html, ooVars>>

\* the listener runs for the message event just received
PluginHandle(handler, env) ==
  /\ out.op = "plugin:receive"
  /\ PluginMessage(handler, received, env)

\* the message event the page receives for a message the plugin posted
Posted(m) ==
  Msg(m.source, m.type, frame, 0, m.payload.text, m.payload.selectionType,
      m.payload.changedAt, NoText, "")

\* the same for a reply, whose payload carries the id of the command
PostedReply(m) ==
  IF m.type = "response"
  THEN Msg(m.source, m.type, frame, m.payload.id, NoText, NoType, 0, m.payload.result, "")
  ELSE Msg(m.source, m.type, frame, m.payload.id, NoText, NoType, 0, NoText, m.payload.message)

\* the same for any message of the plugin; the payload of ready is empty
Arriving(m) ==
  IF m.type = "selectionChanged" THEN Posted(m)
  ELSE IF m.type = "ready" THEN Msg(m.source, m.type, frame, 0, NoText, NoType, 0, NoText, "")
  ELSE PostedReply(m)

\* Asc.plugin.init, lines 1689-1695, called once by the office editor when it
\* has loaded the plugin: it posts ready, starts a forced selection check
\* and sets the poll interval
PluginInit(reads) ==
  LET emitted == emitSelectionIfChanged(TRUE, doc, edSel, reads)
  IN /\ mounted = "onlyoffice"
     /\ ~pollTimer
     /\ pollTimer' = TRUE
     /\ lastText' = IF emitted = <<>> THEN lastText ELSE emitted[1].payload.text
     /\ lastSelectionType' =
          IF emitted = <<>> THEN lastSelectionType ELSE emitted[1].payload.selectionType
     /\ lastSent' = IF emitted = <<>> THEN lastSent ELSE emitted[1].payload
     /\ Channel(<<PluginSend("ready", <<>>)>> \o emitted)
     /\ out' = [Quiet("plugin:init") EXCEPT
                  !.args = <<reads>>, !.apiCalls = <<"GetSelectionType">>,
                  !.sent = <<PluginSend("ready", <<>>)>> \o emitted]
     /\ UNCHANGED <<received, checks>>
     /\ UNCHANGED htmlVars
     /\ UNCHANGED <<mountVars, clock, html, ooVars>>

----------------------------------------------------------------------------
\* The mount logic of the OnlyOfficeEditor component, lines 76-159: the attach
\* loop that creates the OnlyOfficeControlApi instances, and the cleanup of
\* the effect.  The fields of OnlyOfficeControlApi above are those of the
\* instance created last; an instance no variable refers to any more is in
\* attach.dropped with the state of its window listener.

\* if (disposed || attempt >= 8) return, line 131
MaxAttempts == 8
\* the delay of the retry timer, line 135
RETRY_DELAY_MS == 1500

\* mount() is about to call tryAttachWithRetry(1), line 138.  pc: "idle",
\* "iframe" (awaiting waitForEditorIframe), "init" (awaiting init()),
\* "timer" (the retry timer is armed), "connected", "returned".  retryTimer:
\* the delay of the timer that is armed, 0 when none is.  handed: the
\* arguments onControlApiReady was called with
NotAttached ==
  [disposed |-> FALSE, attempt |-> 0, pc |-> "idle", retryTimer |-> 0,
   controlApiRef |-> FALSE, handed |-> <<>>, dropped |-> {}]

\* an instance nothing refers to any more: the attempt that created it, how
\* its init() ended, whether its listener is registered on the window
Dropped(attempt, init, registered) ==
  [attempt |-> attempt, init |-> init, messageHandler |-> registered]

\* the catch block of tryAttachWithRetry, lines 129-136, for the attach state a
Caught(a) ==
  IF a.disposed \/ a.attempt >= MaxAttempts
  THEN [a EXCEPT !.pc = "returned"]
  ELSE [a EXCEPT !.pc = "timer", !.retryTimer = RETRY_DELAY_MS]

\* tryAttachWithRetry(attempt), lines 126-128, called by mount() (attempt 1)
\* or by the retry timer, and attachBridge(attempt) up to its first await,
\* lines 108-110
AttachBridge(attempt) ==
  /\ mounted = "onlyoffice"
  /\ attach.pc = (IF attempt = 1 THEN "idle" ELSE "timer")
  /\ attempt = attach.attempt + 1
  /\ attach' = [attach EXCEPT !.attempt = attempt, !.retryTimer = 0,
                  !.pc = IF attach.disposed THEN "returned" ELSE "iframe"]
  /\ out' = [Quiet("attachBridge") EXCEPT !.call = attempt,
               !.branch = IF attach.disposed THEN "disposed" ELSE "waiting"]
  /\ UNCHANGED <<mounted, clock, html, pluginVars, ooVars, htmlVars>>

\* attachBridge resumes with the iframe, lines 111-116: it throws when there
\* is none (found = FALSE), else it creates the instance (the constructor,
\* part_011 lines 29-39) and calls init(), which registers the listener and
\* starts to poll (part_011 lines 41-81)
AttachInstance(found) ==
  /\ mounted = "onlyoffice"
  /\ attach.pc = "iframe"
  /\ IF ~found THEN
       /\ attach' = Caught(attach)
       /\ out' = [Quiet("attachInstance") EXCEPT !.call = attach.attempt, !.branch = "noiframe"]
       /\ UNCHANGED ooVars
     ELSE
       /\ attach' = [attach EXCEPT !.pc = "init"]
       /\ messageHandler' = TRUE
       /\ pluginReady' = FALSE
       /\ bridgeWindow' = NoWindow
       /\ selectionListeners' = {}
       /\ latestSelection' = Snapshot(<<>>, "none", DateNow)
       /\ requestMap' = {}
       /\ timers' = {}
       /\ promise' = [i \in Ids |-> [state |-> "none", command |-> "", error |-> NoError]]
       /\ initPc' = [c \in InitCalls |-> IF c = 1 THEN "polling" ELSE "idle"]
       /\ out' = [Quiet("attachInstance") EXCEPT !.call = attach.attempt, !.branch = "init"]
       /\ UNCHANGED frame
  /\ UNCHANGED <<mounted, clock, html, pluginVars, htmlVars>>

\* attachBridge resumes when init() has settled, lines 116-123, and the catch
\* block of tryAttachWithRetry when it threw
AttachSettled ==
  /\ mounted = "onlyoffice"
  /\ attach.pc = "init"
  /\ initPc[1] \in {"resolved", "rejected"}
  /\ IF initPc[1] = "rejected" THEN
       /\ attach' = Caught([attach EXCEPT
                      !.dropped = @ \cup {Dropped(attach.attempt, "rejected", messageHandler)}])
       /\ out' = [Quiet("attachSettled") EXCEPT !.call = attach.attempt, !.branch = "thrown"]
       /\ UNCHANGED ooVars
     ELSE IF attach.disposed THEN
       /\ ApiDestroyed
       /\ attach' = [attach EXCEPT !.pc = "returned",
                       !.dropped = @ \cup {Dropped(attach.attempt, "resolved", FALSE)}]
       /\ out' = [Quiet("attachSettled") EXCEPT !.call = attach.attempt,
                    !.branch = "destroyed", !.settled = DestroySettles]
     ELSE
       /\ attach' = [attach EXCEPT !.pc = "connected", !.controlApiRef = TRUE,
                       !.handed = Append(@, "controlApi")]
       /\ out' = [Quiet("attachSettled") EXCEPT !.call = attach.attempt, !.branch = "connected"]
       /\ UNCHANGED ooVars
  /\ UNCHANGED <<mounted, clock, html, pluginVars, htmlVars>>

\* the cleanup of the effect, lines 147-159
AttachCleanup ==
  /\ mounted = "onlyoffice"
  /\ ~attach.disposed
  /\ attach.pc # "idle"
  /\ attach' = [attach EXCEPT !.disposed = TRUE, !.retryTimer = 0,
                  !.pc = IF @ = "timer" THEN "returned" ELSE @,
                  !.controlApiRef = FALSE, !.handed = Append(@, "null")]
  /\ IF attach.controlApiRef
     THEN /\ ApiDestroyed
          /\ out' = [Quiet("attachCleanup") EXCEPT !.branch = "destroyed",
                       !.settled = DestroySettles]
     ELSE /\ out' = [Quiet("attachCleanup") EXCEPT !.branch = "none"]
          /\ UNCHANGED ooVars
  /\ UNCHANGED <<mounted, clock, html, pluginVars, htmlVars>>

----------------------------------------------------------------------------
\* The state after construction.

\* new OnlyOfficeControlApi(resolver), lines 29-39
OOConstructed ==
  /\ messageHandler = FALSE
  /\ pluginReady = FALSE
  /\ bridgeWindow = NoWindow
  /\ selectionListeners = {}
  /\ latestSelection = Snapshot(<<>>, "none", DateNow)
  /\ requestMap = {}
  /\ timers = {}
  /\ promise = [i \in Ids |-> [state |-> "none", command |-> "", error |-> NoError]]
  /\ initPc = [c \in InitCalls |-> "idle"]

\* new HtmlEditorControlApi(editor) on an editor whose cursor is at the start
\* of the document
HtmlConstructed ==
  /\ listeners = {}
  /\ lastSelection = Snapshot(<<>>, "none", DateNow)
  /\ editorOn = 0
  /\ edSel = Sel(1, 1)

\* the plugin script as loaded, OnlyOfficeEditor.tsx lines 1111-1112
PluginLoadedOn(channel) ==
  /\ lastText = <<>>
  /\ lastSelectionType = ""
  /\ received = NoData
  /\ checks = [c \in CheckIds |-> IdleCheck]
  /\ lastSent = NothingSent
  /\ wire = channel
  /\ pollTimer = FALSE

\* the same in the scenarios that do not follow its messages to the page
PluginLoaded == PluginLoadedOn(NotFollowed)

\* the page mounted the embedded office editor; windows are the frames the
\* resolver may return at first
OOMounted(windows) ==
  /\ mounted = "onlyoffice"
  /\ clock = 1
  /\ attach = NotAttached
  /\ frame \in windows
  /\ OOConstructed
  /\ HtmlConstructed
  /\ PluginLoaded
  /\ doc = <<Plain(<<>>)>>
  /\ html = <<>>
  /\ out = Quiet("new")

----------------------------------------------------------------------------
\* The request protocol of the Cross-Origin Control API: commands, replies,
\* timers and destroy() on one instance whose init() is called at most once.

ReplyIds == 0..MaxRequests
ProtocolMsgs ==
  SelectionMsgs({PLUGIN_SOURCE}, {NoWindow}, {0}, {<<"a">>}, {"range"}, {0})
    \cup ResponseMsgs({PLUGIN_SOURCE}, ReplyIds, {NoText, <<" ", "a">>})
    \cup ErrorMsgs({PLUGIN_SOURCE}, ReplyIds, {"", "boom"})
    \cup OtherMsgs({PLUGIN_SOURCE}, ReplyIds)

Init == OOMounted({"W1", NoWindow})

Next ==
  \/ \E c \in {1} : OOInit(c)
  \/ \E m \in ProtocolMsgs : OODeliver(m)
  \/ OODestroy
  \/ \E l \in {1} : OOSubscribe(l)
  \/ \E l \in {1} : OOUnsubscribe(l)
  \/ OOGetSelectedText
  \/ OOSelectAllContent
  \/ \E id \in Ids : OOTimeout(id)

Spec == Init /\ [][Next]_vars

----------------------------------------------------------------------------
\* The ready handshake and the choice of the target window: init() calls,
\* ready messages from either source tag, frame replacement, commands.

Sources == {PLUGIN_SOURCE, APP_SOURCE}
HandshakeMsgs ==
  ReadyMsgs(Sources, Windows \cup {NoWindow})
    \cup SelectionMsgs({PLUGIN_SOURCE}, Windows \cup {NoWindow}, {0}, {<<>>}, {"none"}, {1})
    \cup OtherMsgs({PLUGIN_SOURCE}, {0})

InitHandshake == OOMounted(Windows \cup {NoWindow})

NextHandshake ==
  \/ \E c \in InitCalls : OOInit(c)
  \/ \E c \in InitCalls, expired \in BOOLEAN : OOInitWake(c, expired)
  \/ \E m \in HandshakeMsgs : OODeliver(m)
  \/ OODestroy
  \/ OOSelectAllContent
  \/ \E w \in Windows \cup {NoWindow} : OOFrameReplaced(w)

SpecHandshake == InitHandshake /\ [][NextHandshake]_vars

----------------------------------------------------------------------------
\* Selection snapshots and listeners of either Control API.  The page mounts
\* one of the two editing substrates.

SelectionFeedMsgs ==
  SelectionMsgs({PLUGIN_SOURCE}, {NoWindow}, {0, 1}, {NoText, <<"a">>}, {NoType, "range"},
                {0, MaxClock})
    \cup SelectionMsgs({APP_SOURCE}, {NoWindow}, {0}, {<<"a">>}, {"range"}, {0})
    \cup ReadyMsgs({PLUGIN_SOURCE}, {NoWindow})

\* the selections the user makes in this scenario
FeedSelections == {Sel(1, 1), Sel(1, 2)}

\* the page mounted the in-process editor on one of the documents docs
HtmlMounted(docs) ==
  /\ mounted = "html"
  /\ clock = 1
  /\ attach = NotAttached
  /\ frame = NoWindow
  /\ OOConstructed
  /\ HtmlConstructed
  /\ PluginLoaded
  /\ doc \in docs
  /\ html = <<>>
  /\ out = Quiet("new")

InitSelection == OOMounted({"W1"}) \/ HtmlMounted({<<Plain(<<>>)>>, <<Plain(<<"a">>)>>})

NextSelection ==
  \/ \E c \in {1} : mounted = "onlyoffice" /\ OOInit(c)
  \/ \E m \in SelectionFeedMsgs : mounted = "onlyoffice" /\ OODeliver(m)
  \/ mounted = "onlyoffice" /\ OODestroy
  \/ \E l \in Listeners : mounted = "onlyoffice" /\ OOSubscribe(l)
  \/ \E l \in Listeners : mounted = "onlyoffice" /\ OOUnsubscribe(l)
  \/ mounted = "onlyoffice" /\ OOGetSelectedText
  \/ mounted = "html" /\ HInit
  \/ mounted = "html" /\ HDestroy
  \/ \E l \in Listeners : mounted = "html" /\ HSubscribe(l)
  \/ \E l \in Listeners : mounted = "html" /\ HUnsubscribe(l)
  \/ \E sel \in FeedSelections : mounted = "html" /\ HSelectionUpdate(sel)
  \/ mounted = "html" /\ HSelectAllContent
  \/ Tick

SpecSelection == InitSelection /\ [][NextSelection]_vars

----------------------------------------------------------------------------
\* getSelectedText() of the Cross-Origin Control API over every cached text
\* and every reply.

SelectionTexts == Texts \cup {NoText}
TextMsgs ==
  SelectionMsgs({PLUGIN_SOURCE}, {NoWindow}, {0}, SelectionTexts, {"range"}, {0})
    \cup ResponseMsgs({PLUGIN_SOURCE}, Ids, SelectionTexts)

InitText == OOMounted({"W1", NoWindow})

NextText ==
  \/ \E c \in {1} : OOInit(c)
  \/ \E m \in TextMsgs : OODeliver(m)
  \/ OOGetSelectedText
  \/ OOSelectAllContent
  \/ \E id \in Ids : OOTimeout(id)

SpecText == InitText /\ [][NextText]_vars

----------------------------------------------------------------------------
\* The document functions highlightInHtml and clearHighlightInHtml applied to
\* HTML strings: a first application to a well-formed string, then a second
\* one to its output.  The marks of the inputs are green, the marks
\* highlightInHtml is asked for are yellow.

MaxNodeText == 2       \* longest text node of an input
MaxBoldText == 1       \* longest bold text of an input
MaxNodes == 2          \* most sibling nodes of an input
MaxTermLen == 2        \* longest term
MaxChain == 2          \* applications in a row

HtmlTexts(n) == UNION {[1..k -> HtmlChars] : k \in 1..n}
Terms == HtmlTexts(MaxTermLen)

\* the nodes of the inputs: text, highlighted text, bold text, and bold text
\* inside a mark (whose text node is not a child of the mark)
InputNodes ==
  {TextNode(t) : t \in HtmlTexts(MaxNodeText)}
    \cup {Element("mark", c, <<TextNode(t)>>) : c \in {"#86efac"}, t \in HtmlTexts(MaxNodeText)}
    \cup {Element("strong", "", <<TextNode(t)>>) : t \in HtmlTexts(MaxBoldText)}
    \cup {Element("mark", c, <<Element("strong", "", <<TextNode(t)>>)>>) :
            c \in {"#86efac"}, t \in HtmlTexts(MaxBoldText)}

HtmlInputs == {InnerHtml(kids) : kids \in UNION {[1..k -> InputNodes] : k \in 0..MaxNodes}}

\* one application recorded in out.chain
Applied(fn, term, color) == [fn |-> fn, term |-> term, color |-> color]

\* may the function be applied with `term` now: the second application of a
\* run uses the term of the first
MayApply(term) ==
  /\ Len(out.chain) < MaxChain
  /\ out.chain # <<>> => term = out.chain[1].term

ApplyHighlight(term, color) ==
  /\ MayApply(term)
  /\ html' = highlightInHtml(html, term, color).html
  /\ out' = [Quiet("highlightInHtml") EXCEPT
               !.matches = highlightInHtml(html, term, color).matches,
               !.before = html,
               !.origin = IF out.chain = <<>> THEN html ELSE out.origin,
               !.chain = Append(out.chain, Applied("highlight", term, color))]
  /\ UNCHANGED <<mountVars, clock, pluginVars, ooVars, htmlVars>>

ApplyClearHighlight(term) ==
  /\ MayApply(term)
  /\ html' = clearHighlightInHtml(html, term).html
  /\ out' = [Quiet("clearHighlightInHtml") EXCEPT
               !.matches = clearHighlightInHtml(html, term).matches,
               !.cleared = clearHighlightInHtml(html, term).cleared,
               !.before = html,
               !.origin = IF out.chain = <<>> THEN html ELSE out.origin,
               !.chain = Append(out.chain, Applied("clear", term, ""))]
  /\ UNCHANGED <<mountVars, clock, pluginVars, ooVars, htmlVars>>

InitHighlight ==
  /\ mounted = "html"
  /\ clock = 1
  /\ attach = NotAttached
  /\ frame = NoWindow
  /\ OOConstructed
  /\ HtmlConstructed
  /\ PluginLoaded
  /\ doc = <<Plain(<<>>)>>
  /\ html \in HtmlInputs
  /\ out = Quiet("new")

NextHighlight ==
  \/ \E term \in Terms, color \in {"#fef08a"} : ApplyHighlight(term, color)
  \/ \E term \in Terms : ApplyClearHighlight(term)

SpecHighlight == InitHighlight /\ [][NextHighlight]_vars

\* highlightInHtml and countOccurrencesInHtml applied in a row with one term;
\* countOccurrencesInHtml is also given blank terms and a term with a space
\* before it.

CountTerms == Terms \cup {<<>>, <<" ">>, <<" ", "a">>}

ApplyCountOccurrences(term) ==
  /\ MayApply(term)
  /\ out' = [Quiet("countOccurrencesInHtml") EXCEPT
               !.matches = countOccurrencesInHtml(html, term),
               !.before = html,
               !.origin = IF out.chain = <<>> THEN html ELSE out.origin,
               !.chain = Append(out.chain, Applied("count", term, ""))]
  /\ UNCHANGED <<html, mountVars, clock, pluginVars, ooVars, htmlVars>>

NextCount ==
  \/ \E term \in Terms, color \in {"#fef08a"} : ApplyHighlight(term, color)
  \/ \E term \in CountTerms : ApplyCountOccurrences(term)

SpecCount == InitHighlight /\ [][NextCount]_vars

----------------------------------------------------------------------------
\* The document commands replaceSelectionRich, runMacro1HighlightDocument and
\* clearMacro1HighlightDocument of either Control API, with the plugin's
\* replaceSelection handler: one command that changes the document, on each
\* of a few documents and every selection of it.

\* the user moves the selection of the office editor
OfficeSelect(sel) ==
  /\ mounted = "onlyoffice"
  /\ sel \in Selections(doc)
  /\ sel # edSel
  /\ edSel' = sel
  /\ out' = Quiet("officeSelect")
  /\ UNCHANGED <<listeners, lastSelection, editorOn, doc>>
  /\ UNCHANGED <<mountVars, clock, html, pluginVars, ooVars>>

EditDocs ==
  {<<<<Ch("a", "#86efac"), Ch("A", "")>>>>,
   <<Plain(<<"a">>), Plain(<<>>)>>,
   <<<<Ch("A", "#fef08a")>>, Plain(<<"a">>)>>}
EditTexts == {<<>>, <<" ">>, <<"a", " ">>}
EditHtmls == {<<>>, <<" ">>, <<MarkOpen("#fef08a"), "A", "</mark>", " ">>}
EditColors == {"", "green"}
\* the selections the user makes in the office editor
OfficeSelections == {Sel(1, 1), Sel(2, 3), Sel(0, DocSize(doc))}
EditPayloads ==
  {Payload(Trim(t), Trim(m), "") : t \in EditTexts, m \in EditHtmls}
    \ {Payload(<<>>, <<>>, "")}

InitEdit ==
  /\ mounted \in {"html", "onlyoffice"}
  /\ clock = 1
  /\ attach = NotAttached
  /\ frame = IF mounted = "onlyoffice" THEN "W1" ELSE NoWindow
  /\ OOConstructed
  /\ HtmlConstructed
  /\ PluginLoaded
  /\ doc \in EditDocs
  /\ html = <<>>
  /\ out = Quiet("new")

NextEdit ==
  \/ mounted = "html" /\ HInit
  \/ \E sel \in Selections(doc) : mounted = "html" /\ HSelectionUpdate(sel)
  \/ \E text \in EditTexts, markup \in EditHtmls :
       mounted = "html" /\ doc \in EditDocs /\ HReplaceSelectionRich(text, markup)
  \/ \E text \in EditTexts, color \in EditColors :
       mounted = "html" /\ doc \in EditDocs /\ HRunMacro1HighlightDocument(text, color)
  \/ \E text \in EditTexts :
       mounted = "html" /\ doc \in EditDocs /\ HClearMacro1HighlightDocument(text)
  \/ \E text \in EditTexts, markup \in EditHtmls :
       mounted = "onlyoffice" /\ OOReplaceSelectionRich(text, markup)
  \/ \E text \in EditTexts, color \in EditColors :
       mounted = "onlyoffice" /\ OORunMacro1HighlightDocument(text, color)
  \/ \E text \in EditTexts : mounted = "onlyoffice" /\ OOClearMacro1HighlightDocument(text)
  \/ \E sel \in OfficeSelections : OfficeSelect(sel)
  \/ \E id \in {1}, payload \in EditPayloads, fails \in BOOLEAN :
       doc \in EditDocs /\ PluginReplaceSelection(id, payload, fails)

SpecEdit == InitEdit /\ [][NextEdit]_vars

----------------------------------------------------------------------------
\* Manual numbering of either substrate: the user selects, then one numbering
\* runs.  Small documents of every shape with every selection, and long
\* documents around the padding threshold with the selections that take all
\* paragraphs or all but the first.

MaxSmallDoc == 3       \* paragraphs of a small document
MaxParagraphs == 10    \* paragraphs of the longest document

ParagraphTexts == {<<>>, <<" ">>, <<"A">>}
SmallDocs ==
  UNION {[1..n -> {Plain(t) : t \in ParagraphTexts}] : n \in 1..MaxSmallDoc}
ExampleDoc == <<Plain(<<"A">>), Plain(<<"B", " ">>), Plain(<<"G">>)>>
LongDocs ==
  {[k \in 1..n |-> Plain(IF k = blank THEN <<" ">> ELSE <<"A">>)] :
     n \in 9..MaxParagraphs, blank \in {0, 2}}
NumberingDocs == SmallDocs \cup {ExampleDoc} \cup LongDocs

\* the selections the user makes on document d
NumberingSelections(d) ==
  IF Len(d) <= MaxSmallDoc THEN Selections(d)
  ELSE {Sel(0, DocSize(d)), Sel(1, DocSize(d) - 1), Sel(ParaPos(d, 2) + 1, DocSize(d) - 1)}

NumberingModes == {"normal_single", "nbsp_double"}

InitNumbering ==
  /\ mounted \in {"html", "onlyoffice"}
  /\ clock = 1
  /\ attach = NotAttached
  /\ frame = IF mounted = "onlyoffice" THEN "W1" ELSE NoWindow
  /\ OOConstructed
  /\ HtmlConstructed
  /\ PluginLoaded
  /\ doc \in NumberingDocs
  /\ html = <<>>
  /\ out = Quiet("new")

NextNumbering ==
  \/ \E sel \in NumberingSelections(doc) :
       mounted = "html" /\ doc \in NumberingDocs /\ HSelectionUpdate(sel)
  \/ \E spacingMode \in NumberingModes :
       mounted = "html" /\ doc \in NumberingDocs
         /\ HRunMacro2ManualNumberingSelection(spacingMode)
  \/ \E sel \in NumberingSelections(doc) : doc \in NumberingDocs /\ OfficeSelect(sel)
  \/ \E id \in {1}, offered \in BOOLEAN :
       doc \in NumberingDocs /\ PluginMacro2ManualNumberingSelection(id, offered)

SpecNumbering == InitNumbering /\ [][NextNumbering]_vars

\* Manual numbering of either substrate with every spacing mode, the remote
\* handler given the mode in the payload of its command: small documents.

MaxSpacingDoc == 2     \* paragraphs of a document

SpacingDocs ==
  UNION {[1..n -> {Plain(t) : t \in ParagraphTexts}] : n \in 1..MaxSpacingDoc}

InitSpacing ==
  /\ mounted \in {"html", "onlyoffice"}
  /\ clock = 1
  /\ attach = NotAttached
  /\ frame = IF mounted = "onlyoffice" THEN "W1" ELSE NoWindow
  /\ OOConstructed
  /\ HtmlConstructed
  /\ PluginLoaded
  /\ doc \in SpacingDocs
  /\ html = <<>>
  /\ out = Quiet("new")

NextSpacing ==
  \/ \E sel \in Selections(doc) :
       mounted = "html" /\ doc \in SpacingDocs /\ HSelectionUpdate(sel)
  \/ \E spacingMode \in SpacingModes :
       mounted = "html" /\ doc \in SpacingDocs
         /\ HRunMacro2ManualNumberingSelection(spacingMode)
  \/ \E sel \in Selections(doc) : doc \in SpacingDocs /\ OfficeSelect(sel)
  \/ \E id \in {1}, requested \in SpacingModes \cup {""} :
       doc \in SpacingDocs /\ PluginMacro2Command(id, requested, TRUE)

SpecSpacing == InitSpacing /\ [][NextSpacing]_vars

----------------------------------------------------------------------------
\* Document statistics of either substrate: short documents of every shape
\* and long documents around the size of one estimated page.  In the office
\* editor the page asks for the figures, the plugin counts them from what the
\* document offers and reports, and replies arrive at the page.

MaxStatsParagraphs == 2    \* paragraphs of a short document

StatsTexts == {<<>>, <<" ">>, <<"a">>, <<"a", " ", "b">>, <<" ", "a", NBSP>>}
ShortDocs ==
  UNION {[1..n -> {Plain(t) : t \in StatsTexts}] : n \in 1..MaxStatsParagraphs}
LongLengths == {PAGE_SYMBOLS - 1, PAGE_SYMBOLS, PAGE_SYMBOLS + 1, 2 * PAGE_SYMBOLS + 1}
PageDocs == {<<Plain([i \in 1..n |-> "a"])>> : n \in LongLengths}
StatsDocs == ShortDocs \cup PageDocs
OfficeDocs ==
  {<<Plain(<<>>)>>, <<Plain(<<"a", " ", "b">>)>>, <<Plain(<<" ", "a", NBSP>>), Plain(<<"a">>)>>}

\* what doc.GetStatistics() reports: nothing; figures that agree; the count
\* with spaces under the second name the code reads and smaller than the
\* count without; negative figures
Statistics ==
  {NoStatistics,
   [words |-> <<JsNum(1)>>, paragraphs |-> <<JsUndefined, JsNum(1)>>,
    symbols |-> <<JsNum(2)>>, symbolsWithSpaces |-> <<JsNum(3)>>],
   [words |-> <<JsNum(3)>>, paragraphs |-> <<JsNum(0), JsNum(1)>>,
    symbols |-> <<JsNum(5)>>, symbolsWithSpaces |-> <<JsUndefined, JsNum(4)>>],
   [words |-> <<JsNum(-1)>>, paragraphs |-> <<JsNum(-1)>>,
    symbols |-> <<JsNum(-1)>>, symbolsWithSpaces |-> <<JsNum(-2)>>]}
PageCounts == {JsUndefined, JsNum(0), JsNum(-1), JsNum(2)}

Host(noDocument, pageCount, statistics, fallback) ==
  [noDocument |-> noDocument,
   GetPageCount |-> pageCount # JsUndefined, pageCount |-> pageCount,
   GetStatistics |-> statistics # NoStatistics, statistics |-> statistics,
   GetAllParagraphs |-> fallback = "paragraphs", GetText |-> fallback = "text"]
StatsHosts ==
  {Host(FALSE, pageCount, statistics, fallback) :
     pageCount \in PageCounts, statistics \in Statistics,
     fallback \in {"paragraphs", "text", "none"}}
  \cup {Host(TRUE, JsUndefined, NoStatistics, "none")}

\* the results of the replies that arrive for a getDocumentStats command
StatsReplies ==
  {NoStatsReply,
   StatsResult([pages |-> 1, paragraphs |-> 1, words |-> 2, symbols |-> 2,
                symbolsWithSpaces |-> 3]),
   StatsResult([pages |-> 0, paragraphs |-> 1, words |-> 1, symbols |-> 1,
                symbolsWithSpaces |-> 1]),
   StatsResult([pages |-> -1, paragraphs |-> 0, words |-> 0, symbols |-> 0,
                symbolsWithSpaces |-> 0]),
   [pages |-> JsNaN, paragraphs |-> JsUndefined, words |-> JsNum(1),
    symbols |-> JsNum(2), symbolsWithSpaces |-> JsNum(1)]}

StatsResponses == ResponseMsgs({PLUGIN_SOURCE, APP_SOURCE}, Ids, StatsReplies)
StatsErrors == ErrorMsgs({PLUGIN_SOURCE}, Ids, {"", NoDocumentMessage})

InitStats ==
  /\ mounted \in {"html", "onlyoffice"}
  /\ clock = 1
  /\ attach = NotAttached
  /\ frame = IF mounted = "onlyoffice" THEN "W1" ELSE NoWindow
  /\ OOConstructed
  /\ HtmlConstructed
  /\ PluginLoaded
  /\ doc \in IF mounted = "html" THEN StatsDocs ELSE OfficeDocs
  /\ html = <<>>
  /\ out = Quiet("new")

NextStats ==
  \/ mounted = "html" /\ HGetDocumentStats
  \/ mounted = "onlyoffice" /\ OOGetDocumentStats
  \/ \E c \in {1} : mounted = "onlyoffice" /\ OOInit(c)
  \/ \E m \in StatsResponses : mounted = "onlyoffice" /\ OODeliver(m)
  \/ \E m \in StatsErrors : mounted = "onlyoffice" /\ OODeliver(m)
  \/ \E id \in requestMap, host \in StatsHosts : PluginGetDocumentStats(id, host)

SpecStats == InitStats /\ [][NextStats]_vars

----------------------------------------------------------------------------
\* The plugin's message listener and the forced emissions: command messages
\* of every kind arrive at one of the two copies of the plugin, the user
\* selects in the office document, the selection messages the plugin posted
\* arrive at the page, and listeners subscribe there.  In process: the
\* selection moves, listeners subscribe, selectAllContent() is called.

PluginDocs ==
  {<<Plain(<<>>)>>, <<Plain(<<"a">>)>>, <<Plain(<<"a", " ", "A">>), Plain(<<>>)>>}

DataCommands == EditorCommands \cup {"print"}
DataPayloads ==
  {NoPayload, Payload(<<"A">>, NoText, ""), Payload(<<"b">>, <<"a">>, "green")}
\* the commands that read their payload
WithPayload == {"replaceSelection", "macro1HighlightDocument", "macro1ClearHighlightDocument"}

\* command messages of the page, and messages the listener has to ignore:
\* another source tag, another type
CommandMessages ==
  {PluginData(APP_SOURCE, "command", id, command, payload) :
     id \in {1, 2}, command \in DataCommands, payload \in DataPayloads}
ForeignMessages ==
  {PluginData(PLUGIN_SOURCE, "command", 1, "selectAllContent", NoPayload),
   PluginData(APP_SOURCE, "response", 1, "selectAllContent", NoPayload),
   PluginData("", "", 1, "replaceSelection", Payload(<<"A">>, NoText, ""))}
PluginMessages ==
  {data \in CommandMessages : data.payload = NoPayload \/ data.command \in WithPayload}
    \cup ForeignMessages

AllOffered == Host(FALSE, JsNum(2), NoStatistics, "paragraphs")
NoDocument == Host(TRUE, JsUndefined, NoStatistics, "none")
Env(throws, reads, fails, offered, host) ==
  [throws |-> throws, reads |-> reads, fails |-> fails, offered |-> offered,
   host |-> host]
\* the office editor behaves
Behaves == Env(FALSE, TRUE, FALSE, TRUE, AllOffered)
\* how the office editor can behave during a command: it behaves; or, for
\* the commands that meet the case, one of its methods throws, the reads of
\* the selection throw, the rich paste throws, the document offers no way to
\* read the selected paragraphs, there is no document
PluginEnvs(data) ==
  {Behaves}
  \cup (IF data.command \in {"getSelectedText", "selectAllContent"}
        THEN {Env(TRUE, TRUE, FALSE, TRUE, AllOffered)} ELSE {})
  \cup (IF data.command \in {"selectAllContent", "replaceSelection", "refreshSelection"}
        THEN {Env(FALSE, FALSE, FALSE, TRUE, AllOffered)} ELSE {})
  \cup (IF data.command = "replaceSelection"
        THEN {Env(FALSE, TRUE, TRUE, TRUE, AllOffered)} ELSE {})
  \cup (IF data.command \in {"macro2ManualNumberingSelection",
                             "macro2ManualNumberingPreviewSelection"}
        THEN {Env(FALSE, TRUE, FALSE, FALSE, AllOffered)} ELSE {})
  \cup (IF data.command \in {"getDocumentPageCount", "getDocumentStats"}
        THEN {Env(FALSE, TRUE, FALSE, TRUE, NoDocument)} ELSE {})

InitPlugin ==
  /\ mounted = "onlyoffice"
  /\ clock = 1
  /\ attach = NotAttached
  /\ frame = "W1"
  /\ OOConstructed
  /\ HtmlConstructed
  /\ PluginLoaded
  /\ doc \in PluginDocs
  /\ html = <<>>
  /\ out = Quiet("new")

NextPlugin ==
  \/ \E data \in PluginMessages : doc \in PluginDocs /\ PluginReceive(data)
  \/ \E handler \in Handlers, env \in PluginEnvs(received) : PluginHandle(handler, env)
  \/ \E reads \in BOOLEAN : PluginPoll(reads)
  \/ \E sel \in OfficeSelections : OfficeSelect(sel)

SpecPlugin == InitPlugin /\ [][NextPlugin]_vars

\* The highlight commands of either substrate, the ranges of some paragraphs
\* of the office document refusing the highlight.

MarkDocs ==
  {<<Plain(<<"a", " ", "A">>), Plain(<<"a">>)>>,
   <<<<Ch("a", "#86efac"), Ch("A", "")>>>>,
   <<Plain(<<>>)>>}
MarkTexts == {<<>>, <<"a">>, <<"a", " ">>}
MarkPayloads == {Payload(t, NoText, c) : t \in MarkTexts, c \in {"", "green"}}

InitMarks ==
  /\ mounted \in {"html", "onlyoffice"}
  /\ clock = 1
  /\ attach = NotAttached
  /\ frame = IF mounted = "onlyoffice" THEN "W1" ELSE NoWindow
  /\ OOConstructed
  /\ HtmlConstructed
  /\ PluginLoaded
  /\ doc \in MarkDocs
  /\ html = <<>>
  /\ out = Quiet("new")

NextMarks ==
  \/ \E text \in MarkTexts, color \in {"", "green"} :
       mounted = "html" /\ HRunMacro1HighlightDocument(text, color)
  \/ \E text \in MarkTexts : mounted = "html" /\ HClearMacro1HighlightDocument(text)
  \/ \E payload \in MarkPayloads, broken \in SUBSET (1..Len(doc)) :
       PluginHighlightTerms(1, payload, broken)
  \/ \E payload \in MarkPayloads, broken \in SUBSET (1..Len(doc)) :
       PluginClearTerms(1, payload, broken)

SpecMarks == InitMarks /\ [][NextMarks]_vars

\* The commands of the page on their way to the plugin and the plugin's
\* messages on their way back, in the order they were posted: the page calls
\* selectAllContent and replaceSelectionRich once its listener is
\* registered, the plugin then also gets a refreshSelection command, and the
\* user moves the selection in between.

MaxWire == 3           \* messages on their way to the page

\* event.data of the message event in the plugin's frame for the command c
\* the page posted
Carried(c) == PluginData(c.source, c.type, c.id, c.command, c.payload)

\* a refreshSelection command; no method of the page sends one
RefreshData == PluginData(APP_SOURCE, "command", MaxRequests + 1, "refreshSelection", NoPayload)

\* the oldest message on the channel is dispatched at the page's window
OOArrive ==
  /\ wire.queue # <<>>
  /\ LET m == Arriving(Head(wire.queue))
     IN IF messageHandler
        THEN HandleMessage(m)
        ELSE /\ out' = [Arrived(m) EXCEPT !.branch = "nolistener"]
             /\ UNCHANGED ooVars
  /\ wire' = [wire EXCEPT !.queue = Tail(@)]
  /\ UNCHANGED <<lastText, lastSelectionType, received, checks, lastSent, pollTimer>>
  /\ UNCHANGED <<mountVars, clock, html, htmlVars>>

InitChannel ==
  /\ mounted = "onlyoffice"
  /\ clock = 1
  /\ attach = NotAttached
  /\ frame = "W1"
  /\ OOConstructed
  /\ HtmlConstructed
  /\ PluginLoadedOn(Followed)
  /\ doc \in PluginDocs
  /\ html = <<>>
  /\ out = Quiet("new")

NextChannel ==
  \/ \E c \in {1} : OOInit(c)
  \/ messageHandler /\ OOSelectAllContent
  \/ \E text \in {<<"A">>}, markup \in {NoText} :
       messageHandler /\ OOReplaceSelectionRich(text, markup)
  \/ \E c \in out.posted : PluginReceive(Carried(c))
  \/ messageHandler /\ received # RefreshData /\ PluginReceive(RefreshData)
  \/ \E handler \in Handlers, env \in PluginEnvs(received) :
       Len(wire.queue) + 2 <= MaxWire /\ PluginHandle(handler, env)
  \/ \E sel \in OfficeSelections : OfficeSelect(sel)
  \/ OOArrive

SpecChannel == InitChannel /\ [][NextChannel]_vars

\* The OnlyOfficeEditor component attaching to the plugin: the attach loop
\* and the cleanup of the effect on the page; in the editor's frame the plugin
\* is initialised at some moment, polls the selection, and the user selects
\* the whole document; the plugin's messages arrive at the page in the order
\* they were posted.

InitAttach ==
  /\ mounted = "onlyoffice"
  /\ clock = 1
  /\ attach = NotAttached
  /\ frame = "W1"
  /\ OOConstructed
  /\ HtmlConstructed
  /\ PluginLoadedOn(Followed)
  /\ doc = <<Plain(<<"a">>)>>
  /\ html = <<>>
  /\ out = Quiet("new")

NextAttach ==
  \/ \E attempt \in 1..MaxAttempts : AttachBridge(attempt)
  \/ \E found \in BOOLEAN : AttachInstance(found)
  \/ \E expired \in BOOLEAN : attach.pc = "init" /\ OOInitWake(1, expired)
  \/ AttachSettled
  \/ AttachCleanup
  \/ \E reads \in BOOLEAN : PluginInit(reads)
  \/ pollTimer /\ wire.queue = <<>> /\ PluginPoll(TRUE)
  \/ \E sel \in {Sel(0, DocSize(doc))} : OfficeSelect(sel)
  \/ OOArrive

SpecAttach == InitAttach /\ [][NextAttach]_vars

\* The selection checks of the plugin overlapping one another and the user's
\* selecting: poll ticks and mouse-ups (not forced), and the checks
\* Asc.plugin.init and the commands start (forced).

InitChecks ==
  /\ mounted = "onlyoffice"
  /\ clock = 1
  /\ attach = NotAttached
  /\ frame = "W1"
  /\ OOConstructed
  /\ HtmlConstructed
  /\ PluginLoaded
  /\ doc \in PluginDocs
  /\ html = <<>>
  /\ out = Quiet("new")

NextChecks ==
  \/ \E c \in CheckIds, force \in BOOLEAN : EmitBegin(c, force)
  \/ \E c \in CheckIds : EmitReadType(c)
  \/ \E c \in CheckIds : EmitReadText(c)
  \/ \E c \in CheckIds : EmitFinish(c)
  \/ \E sel \in OfficeSelections : OfficeSelect(sel)

SpecChecks == InitChecks /\ [][NextChecks]_vars

\* the commands that force an emission
ForcingCommands == {"selectAllContent", "replaceSelection", "refreshSelection"}
ForcingMessages == {data \in PluginMessages : data.command \in ForcingCommands /\ data.id = 1}

InitForced ==
  /\ mounted \in {"html", "onlyoffice"}
  /\ clock = 1
  /\ attach = NotAttached
  /\ frame = IF mounted = "onlyoffice" THEN "W1" ELSE NoWindow
  /\ OOConstructed
  /\ HtmlConstructed
  /\ PluginLoaded
  /\ doc \in PluginDocs
  /\ html = <<>>
  /\ out = Quiet("new")

NextForced ==
  \/ \E data \in ForcingMessages : doc \in PluginDocs /\ PluginReceive(data)
  \/ \E handler \in Handlers, env \in PluginEnvs(received) : PluginHandle(handler, env)
  \/ PluginPoll(TRUE)
  \/ \E sel \in OfficeSelections : OfficeSelect(sel)
  \/ \E c \in {1} : mounted = "onlyoffice" /\ OOInit(c)
  \/ \E l \in Listeners : mounted = "onlyoffice" /\ OOSubscribe(l)
  \/ \E i \in 1..Len(out.sent) :
       /\ mounted = "onlyoffice"
       /\ out.sent[i].type = "selectionChanged"
       /\ OODeliver(Posted(out.sent[i]))
  \/ mounted = "html" /\ HInit
  \/ \E l \in Listeners : mounted = "html" /\ HSubscribe(l)
  \/ \E sel \in OfficeSelections : mounted = "html" /\ HSelectionUpdate(sel)
  \/ mounted = "html" /\ HSelectAllContent

SpecForced == InitForced /\ [][NextForced]_vars

----------------------------------------------------------------------------
\* Claims about the request protocol (checked under Spec).

\* C1: a request whose timer expires is rejected with the timeout error and
\* leaves the pending map in that step; a response or error message whose id
\* is not in the pending map (a late reply to it included) invokes no resolve
\* or reject and leaves the pending map, the promises, the timers, the latest
\* snapshot and the listener set as they were.
C1_TimeoutThenLateReplyIsNoop ==
  [][ /\ (out'.op = "timeout" =>
            /\ promise[out'.id].state = "pending"
            /\ out'.settled = {Rejected(out'.id, promise[out'.id].command,
                                         TimeoutError(promise[out'.id].command))}
            /\ promise'[out'.id].state = "rejected"
            /\ promise'[out'.id].error = TimeoutError(promise[out'.id].command)
            /\ out'.id \notin requestMap'
            /\ out'.id \notin timers')
      /\ (out'.op = "message" /\ out'.msg.type \in {"response", "error"}
            /\ out'.msg.id \notin requestMap =>
            /\ out'.settled = {}
            /\ out'.notified = NoNotified
            /\ UNCHANGED <<requestMap, promise, timers, latestSelection, selectionListeners>>)
    ]_vars

\* C1 witness: a response arrives for a request that its timeout has rejected
C1_Witness ==
  /\ out.op = "message" /\ out.msg.type = "response" /\ out.branch = "unknown"
  /\ out.msg.id \in Ids
  /\ promise[out.msg.id].state = "rejected"
  /\ promise[out.msg.id].error.text = "Timeout comando bridge: "

\* C2: the pending map holds exactly the ids of the dispatched requests whose
\* promise is still unsettled.
C2_PendingMapIsUnsettled ==
  requestMap = {i \in Ids : promise[i].state = "pending"}

\* C3: destroy() rejects every request of the pending map with the
\* bridge-closed error, leaves the map empty, leaves no timer armed, removes
\* the message listener and empties the listener set; a message delivered
\* while no listener is registered changes nothing and invokes no listener
\* and no promise callback.
C3_DestroyRejectsAllAndSilences ==
  [][ /\ (out'.op = "destroy" =>
            /\ out'.settled = {Rejected(i, promise[i].command, ClosedError) : i \in requestMap}
            /\ \A i \in requestMap :
                 /\ promise[i].state = "pending"
                 /\ promise'[i].state = "rejected"
                 /\ promise'[i].error = ClosedError
            /\ requestMap' = {}
            /\ timers' = {}
            /\ ~messageHandler'
            /\ selectionListeners' = {}
            /\ out'.notified = NoNotified)
      /\ (out'.op = "message" /\ ~messageHandler =>
            /\ out'.settled = {}
            /\ out'.notified = NoNotified
            /\ UNCHANGED ooVars)
      /\ (out'.op = "timeout" => promise[out'.id].error # ClosedError)
    ]_vars

\* C3 witness: destroy() was called with two requests in flight and a listener
\* subscribed, and rejected both
C3_Witness ==
  /\ out.op = "destroy"
  /\ Cardinality(out.settled) = 2
  /\ \A i \in {1, 2} : promise[i].state = "rejected" /\ promise[i].error = ClosedError

\* C3 witness of the second half: a reply delivered after destroy()
C3_WitnessLate ==
  /\ out.op = "message" /\ out.branch = "nolistener" /\ out.msg.type = "response"
  /\ out.msg.id \in Ids /\ promise[out.msg.id].error = ClosedError

----------------------------------------------------------------------------
\* Claims about the ready handshake and the target window (checked under
\* SpecHandshake).

\* C4: init() on an instance with no message listener registers the listener
\* and starts polling; a polling init() resolves only while pluginReady is
\* set, pluginReady is set only by a ready message carrying the plugin source
\* tag that reached the registered listener, a message with another source tag
\* changes neither pluginReady nor any init() call, and the ready message's
\* event source (when it has one) becomes the bridge window.
C4_InitResolvesOnPluginReady ==
  [][ /\ (out'.op = "init" /\ ~messageHandler =>
            messageHandler' /\ initPc'[out'.call] = "polling")
      /\ (\A c \in InitCalls :
            initPc[c] = "polling" /\ initPc'[c] = "resolved" => pluginReady)
      /\ (~pluginReady /\ pluginReady' =>
            /\ out'.op = "message" /\ out'.msg.type = "ready"
            /\ out'.msg.source = PLUGIN_SOURCE /\ messageHandler)
      /\ (out'.op = "message" /\ out'.msg.type = "ready"
            /\ out'.msg.source = PLUGIN_SOURCE /\ messageHandler =>
            /\ pluginReady'
            /\ (out'.msg.evSource # NoWindow => bridgeWindow' = out'.msg.evSource))
      /\ (out'.op = "message" /\ out'.msg.source # PLUGIN_SOURCE =>
            UNCHANGED <<pluginReady, bridgeWindow, initPc>>)
    ]_vars

\* C4 witness: the first init() polled and resolved, and the bridge window is
\* the window the ready message came from
C4_Witness ==
  /\ out.op = "initWake" /\ out.call = 1 /\ initPc[1] = "resolved"
  /\ pluginReady /\ bridgeWindow = "W2" /\ frame = "W1"

\* C5: once an init() call has been rejected by the ready timeout, a further
\* init() call on the instance is fulfilled only when the plugin is ready.
C5_FreshInitWaitsForReady ==
  (/\ out.op = "init"
   /\ \E d \in InitCalls : initPc[d] = "rejected"
   /\ initPc[out.call] \in {"returned", "resolved"})
  => pluginReady

\* C6 as stated: every command is posted to the window the resolver returns
\* at dispatch time.
C6_PostedToResolverWindow ==
  \A p \in out.posted : p.target = frame

\* C6 amended: a command is posted to the recorded bridge window when one is
\* recorded and to the window the resolver returns at dispatch time otherwise;
\* it is rejected as unavailable, and nothing is posted, exactly when neither
\* is a window.
C6_PostedToBridgeWindowElseResolver ==
  /\ \A p \in out.posted :
       p.target = (IF bridgeWindow # NoWindow THEN bridgeWindow ELSE frame)
  /\ (out.op = "selectAllContent" =>
        /\ (out.branch = "unavailable") = (bridgeWindow = NoWindow /\ frame = NoWindow)
        /\ (out.branch = "posted") = (Cardinality(out.posted) = 1)
        /\ (out.branch = "unavailable") = (out.posted = {}))

\* C6 witness: the frame was replaced after the bridge window was recorded and
\* a command went out to the recorded window
C6_Witness ==
  /\ out.branch = "posted"
  /\ bridgeWindow = "W1" /\ frame = "W2"
  /\ \E p \in out.posted : p.target = "W1"

----------------------------------------------------------------------------
\* Claims about snapshots and listeners (checked under SpecSelection).

\* the listener set and the latest snapshot of the mounted Control API
CurrentListeners == IF mounted = "onlyoffice" THEN selectionListeners ELSE listeners
CurrentLatest == IF mounted = "onlyoffice" THEN latestSelection ELSE lastSelection

\* C7: subscribing invokes the new listener exactly once, with the latest
\* snapshot, and nobody else; every step that emits snapshots invokes each
\* subscribed listener once per emission, in order, and nobody else, and the
\* last emission is the latest snapshot; no other step invokes a listener.
C7_ReplayOnSubscribeThenEveryEmission ==
  /\ (out.op = "subscribe" =>
        /\ out.listener \in CurrentListeners
        /\ out.notified[out.listener] = <<CurrentLatest>>
        /\ \A l \in Listeners \ {out.listener} : out.notified[l] = <<>>)
  /\ (out.emitted # <<>> =>
        /\ \A l \in CurrentListeners : out.notified[l] = out.emitted
        /\ \A l \in Listeners \ CurrentListeners : out.notified[l] = <<>>
        /\ CurrentLatest = out.emitted[Len(out.emitted)])
  /\ (out.op # "subscribe" /\ out.emitted = <<>> => out.notified = NoNotified)
  /\ (out.op = "message" /\ out.branch = "selectionChanged" => Len(out.emitted) = 1)
  /\ (out.op = "selectionUpdate" => Len(out.emitted) = editorOn)

\* C7 witness: a listener subscribes after time has passed and before any
\* selection change, and is handed the snapshot made at construction
C7_Witness ==
  /\ out.op = "subscribe"
  /\ clock = MaxClock
  /\ out.notified[out.listener] = <<Snapshot(<<>>, "none", 1)>>

\* C8: the unsubscribe function of a listener removes that listener and no
\* other, invokes nobody, changes nothing else, and changes nothing at all
\* when the listener is not subscribed; a listener that is not subscribed
\* after a step was not invoked by it, and every listener subscribed before an
\* emitting step receives every emission of it.
C8_UnsubscribeRemovesOnlyThatListener ==
  [][ /\ (out'.op = "unsubscribe" =>
            /\ CurrentListeners' = CurrentListeners \ {out'.listener}
            /\ out'.notified = NoNotified
            /\ out'.emitted = <<>>
            /\ CurrentLatest' = CurrentLatest
            /\ (out'.listener \notin CurrentListeners => UNCHANGED <<ooVars, htmlVars>>))
      /\ (\A l \in Listeners : out'.notified[l] # <<>> => l \in CurrentListeners')
      /\ (out'.emitted # <<>> =>
            \A l \in CurrentListeners : out'.notified[l] = out'.emitted)
    ]_vars

\* C8 witness: with two listeners subscribed, the unsubscribe function of the
\* first removed it and left the second subscribed
C8_Witness ==
  /\ out.op = "unsubscribe" /\ out.listener = 1 /\ out.branch = "deleted"
  /\ CurrentListeners = {2}
  /\ mounted = "html"

\* C9: a selectionChanged message with the plugin source tag that reaches the
\* registered handler makes the latest snapshot the message's snapshot (text
\* or "", selection type or "unknown", changedAt or the current time), invokes
\* every subscribed listener once with it, and settles or removes no request.
C9_SelectionChangedFansOut ==
  [][ (/\ out'.op = "message" /\ messageHandler
       /\ out'.msg.source = PLUGIN_SOURCE /\ out'.msg.type = "selectionChanged") =>
        /\ latestSelection'.text = (IF out'.msg.text = NoText THEN <<>> ELSE out'.msg.text)
        /\ latestSelection'.selectionType =
             (IF out'.msg.selectionType = NoType THEN "unknown" ELSE out'.msg.selectionType)
        /\ latestSelection'.changedAt =
             (IF out'.msg.changedAt = 0 THEN clock ELSE out'.msg.changedAt)
        /\ \A l \in Listeners :
             out'.notified[l] = (IF l \in selectionListeners THEN <<latestSelection'>> ELSE <<>>)
        /\ out'.settled = {}
        /\ UNCHANGED <<requestMap, promise, timers, selectionListeners>>
    ]_vars

\* C9 witness: a selectionChanged message carrying the id of a pending request
\* arrived before the ready handshake, and both listeners were invoked
C9_Witness ==
  /\ out.op = "message" /\ out.branch = "selectionChanged"
  /\ out.msg.id = 1 /\ 1 \in requestMap /\ promise[1].state = "pending"
  /\ ~pluginReady
  /\ selectionListeners = Listeners
  /\ \A l \in Listeners : out.notified[l] = <<latestSelection>>

----------------------------------------------------------------------------
\* Claims about getSelectedText() (checked under SpecText).

Spaces(n) == [i \in 1..n |-> " "]

\* t is s without its leading and trailing white space
IsTrimOf(t, s) ==
  /\ \E i, j \in 0..Len(s) : s = Spaces(i) \o t \o Spaces(j)
  /\ t # <<>> => t[1] # " " /\ t[Len(t)] # " "

\* s holds a character that is not white space
NonBlank(s) == \E i \in 1..Len(s) : s[i] # " "

\* C10: getSelectedText() with a cached text that is not blank returns that
\* text trimmed and posts nothing; a getSelectedText command is posted only
\* when the cached text is blank, and then exactly one; the reply to it
\* resolves the call with the trimmed result.
C10_GetSelectedTextCacheFirst ==
  /\ (out.op = "getSelectedText" /\ NonBlank(latestSelection.text) =>
        /\ out.branch = "cached"
        /\ IsTrimOf(out.returned, latestSelection.text)
        /\ out.posted = {} /\ out.settled = {})
  /\ (out.op = "getSelectedText" /\ ~NonBlank(latestSelection.text) =>
        /\ out.branch \in {"posted", "unavailable"}
        /\ out.returned = NoText
        /\ (out.branch = "posted" =>
              /\ out.posted = {Command(RequestTarget, out.id, "getSelectedText")}
              /\ out.id \in requestMap
              /\ promise[out.id] = [state |-> "pending", command |-> "getSelectedText",
                                    error |-> NoError]))
  /\ (\A p \in out.posted :
        p.command = "getSelectedText" => ~NonBlank(latestSelection.text))
  /\ (out.op = "message" =>
        \A r \in out.settled :
          r.how = "resolve" /\ r.command = "getSelectedText" =>
            IsTrimOf(r.value, StringOr(out.msg.result)))

\* C10 witness: the cache was blank, so the command went out, and its reply
\* " a" resolved the call with "a"
C10_Witness ==
  /\ out.op = "message"
  /\ ~NonBlank(latestSelection.text)
  /\ out.msg.result = <<" ", "a">>
  /\ \E r \in out.settled :
       r.how = "resolve" /\ r.command = "getSelectedText" /\ r.value = <<"a">>

----------------------------------------------------------------------------
\* Claims about dispatch without a target and about replies (C11 checked
\* under SpecHandshake, C12 and C13 under Spec).

\* C11: a command dispatched while no bridge window is recorded and the
\* resolver returns no window is rejected with the target-unavailable error,
\* whose text is not the timeout error's, posts nothing, and leaves the pending
\* map, the timers and every promise as they were; a command dispatched while
\* either window exists is not rejected so.
C11_NoTargetRejectsWithoutDispatch ==
  [][ out'.op = "selectAllContent" =>
        IF bridgeWindow = NoWindow /\ frame = NoWindow
        THEN /\ Cardinality(out'.settled) = 1
             /\ \A r \in out'.settled :
                  /\ r.how = "reject"
                  /\ r.error.text = "Iframe ONLYOFFICE indisponivel."
                  /\ r.error.text # TimeoutError(r.command).text
             /\ out'.posted = {}
             /\ UNCHANGED <<requestMap, timers, promise>>
        ELSE out'.settled = {} /\ out'.posted # {}
    ]_vars

\* C11 witness: a command was posted while the frame existed and is still
\* pending; the frame was removed and the next command was rejected as
\* unavailable
C11_Witness ==
  /\ out.op = "selectAllContent" /\ out.branch = "unavailable"
  /\ requestMap = {1} /\ timers = {1} /\ promise[1].state = "pending"
  /\ promise[2].state = "none"

\* C12: an error message with the plugin source tag whose id is in the pending
\* map rejects that request's promise with an error whose text is the
\* message's text (the default text when the message has none), removes the id
\* from the pending map and cancels its timer.
C12_ErrorReplyRejectsWithRemoteMessage ==
  [][ (/\ out'.op = "message" /\ messageHandler /\ out'.msg.source = PLUGIN_SOURCE
       /\ out'.msg.type = "error" /\ out'.msg.id \in requestMap) =>
        /\ promise[out'.msg.id].state = "pending"
        /\ promise'[out'.msg.id].state = "rejected"
        /\ promise'[out'.msg.id].error.text =
             (IF out'.msg.message = "" THEN "Erro no bridge ONLYOFFICE." ELSE out'.msg.message)
        /\ Cardinality(out'.settled) = 1
        /\ \A r \in out'.settled :
             r.how = "reject" /\ r.id = out'.msg.id /\ r.error = promise'[out'.msg.id].error
        /\ out'.msg.id \notin requestMap'
        /\ out'.msg.id \notin timers'
    ]_vars

\* C12 witness: the plugin answered a pending request with the error "boom"
C12_Witness ==
  /\ out.op = "message" /\ out.branch = "reply" /\ out.msg.type = "error"
  /\ out.msg.message = "boom"
  /\ promise[out.msg.id].state = "rejected"
  /\ promise[out.msg.id].error.text = "boom"
  /\ out.msg.id \notin requestMap /\ out.msg.id \notin timers

\* C13: a dispatched command gets an id no earlier command of the run had,
\* with its own pending entry and timer; a response or error carrying a
\* pending id settles that request only, with the value its own method makes
\* of the result, and leaves every other request's promise, pending entry and
\* timer as they were.
C13_RepliesSettleOnlyTheirOwnRequest ==
  [][ /\ (out'.branch = "posted" =>
            /\ promise[out'.id].state = "none"
            /\ out'.id \notin requestMap /\ out'.id \notin timers
            /\ requestMap' = requestMap \cup {out'.id}
            /\ timers' = timers \cup {out'.id}
            /\ \A p \in out'.posted : p.id = out'.id
            /\ \A i \in Ids \ {out'.id} : promise'[i] = promise[i])
      /\ (out'.op = "message" /\ out'.branch = "reply" =>
            /\ \A r \in out'.settled :
                 /\ r.id = out'.msg.id
                 /\ r.command = promise[out'.msg.id].command
                 /\ (r.how = "resolve" =>
                       r.value = (IF r.command = "getSelectedText"
                                  THEN Trim(StringOr(out'.msg.result))
                                  ELSE out'.msg.result))
            /\ \A i \in Ids \ {out'.msg.id} :
                 /\ promise'[i] = promise[i]
                 /\ (i \in requestMap') = (i \in requestMap)
                 /\ (i \in timers') = (i \in timers))
    ]_vars

\* C13 witness: getSelectedText (id 1) and selectAllContent (id 2) were in
\* flight together; the reply to the second came first, and now the reply to
\* the first resolves getSelectedText with its own text
C13_Witness ==
  /\ out.op = "message" /\ out.branch = "reply" /\ out.msg.id = 1
  /\ out.msg.type = "response"
  /\ \E r \in out.settled :
       r.how = "resolve" /\ r.command = "getSelectedText" /\ r.value = <<"a">>
  /\ promise[1].state = "fulfilled" /\ promise[2].state = "fulfilled"
  /\ requestMap = {} /\ timers = {}

----------------------------------------------------------------------------
\* Claims about the document functions (checked under SpecHighlight).

\* the rendered text of an HTML string: its characters, tags left out
IsTagToken(t) == IsOpenTag(t) \/ IsCloseTag(t)
HtmlText(h) == SelectSeq(h, LAMBDA t : ~IsTagToken(t))

\* the term occurs in the text, literally and whatever the case of the letters
SameLetter(x, y) == x = y \/ {x, y} = {"a", "A"}
Occurs(term, text) ==
  \E i \in 1..(Len(text) - Len(term) + 1) :
    \A k \in 1..Len(term) : SameLetter(term[k], text[i + k - 1])

\* C16: Highlight applied with term t to the output of Highlight with the
\* same term t (and any colors) reports zero matches and returns its input.
C16_HighlightTwiceFindsNothing ==
  (/\ Len(out.chain) = 2
   /\ out.chain[1].fn = "highlight" /\ out.chain[2].fn = "highlight"
   /\ out.chain[1].term = out.chain[2].term)
  => out.matches = 0 /\ html = out.before

\* C16 witness: the first application wrapped two occurrences in a text that
\* also held a marker, and the second application has run
C16_Witness ==
  /\ Len(out.chain) = 2
  /\ out.chain[1].fn = "highlight" /\ out.chain[2].fn = "highlight"
  /\ out.chain[1].term = <<"a">>
  /\ out.origin = <<"a", "A", MarkOpen("#86efac"), "<strong>", "a", "</strong>", "</mark>">>
  /\ html # out.origin

\* C17: ClearHighlight with term t applied to the output of Highlight with
\* term t returns a string with the rendered text of the string Highlight was
\* given, in which no mark element holds a match of t.
C17_HighlightThenClearKeepsText ==
  (/\ Len(out.chain) = 2
   /\ out.chain[1].fn = "highlight" /\ out.chain[2].fn = "clear"
   /\ out.chain[1].term = out.chain[2].term)
  => /\ HtmlText(html) = HtmlText(out.origin)
     /\ HtmlText(out.before) = HtmlText(out.origin)
     /\ \A i \in 1..Len(html) :
          IsMarkOpen(html[i]) =>
            LET j == CHOOSE k \in (i + 1)..Len(html) :
                       html[k] = "</mark>" /\ \A m \in (i + 1)..(k - 1) : html[m] # "</mark>"
            IN  ~Occurs(out.chain[1].term, HtmlText(SubSeq(html, i + 1, j - 1)))

\* C17 witness: Highlight wrapped an occurrence written in the other case,
\* and ClearHighlight unwrapped it again
C17_Witness ==
  /\ Len(out.chain) = 2
  /\ out.chain[1].fn = "highlight" /\ out.chain[2].fn = "clear"
  /\ out.chain[1].term = <<"A", ".">>
  /\ out.origin = <<"a", ".", "<strong>", ".", "</strong>">>
  /\ out.before = <<MarkOpen("#fef08a"), "a", ".", "</mark>", "<strong>", ".", "</strong>">>
  /\ html = out.origin
  /\ out.cleared = 1

----------------------------------------------------------------------------
\* Claims about the document commands (checked under SpecEdit).

Macro1Ops == {"runMacro1HighlightDocument", "clearMacro1HighlightDocument"}

\* the error of a macro called without a term
MissingTermError(op) ==
  IF op = "runMacro1HighlightDocument"
  THEN Err("Informe o Texto de entrada para a Macro1.", "")
  ELSE Err("Informe o Texto de entrada para limpar marcacoes da Macro1.", "")

\* C14: runMacro1HighlightDocument and clearMacro1HighlightDocument called
\* with a term that is blank reject with the error that asks for the input
\* text and leave everything as it was: the in-process variant leaves the
\* document and the selection alone and emits no snapshot, the cross-origin
\* variant posts no command and adds no pending request, timer or promise.
C14_EmptyTermRejectsAndLeavesDocument ==
  [][(out'.op \in Macro1Ops /\ ~NonBlank(out'.args[1]))
       => /\ out'.branch = "thrown"
          /\ out'.settled = {Rejected(0, out'.op, MissingTermError(out'.op))}
          /\ out'.posted = {}
          /\ out'.emitted = <<>>
          /\ doc' = doc
          /\ edSel' = edSel
          /\ lastSelection' = lastSelection
          /\ requestMap' = requestMap
          /\ timers' = timers
          /\ promise' = promise]_vars

\* C14 happens: the in-process macro was called with a blank term on a
\* document that holds highlighted text
C14_Witness ==
  /\ mounted = "html"
  /\ out.op \in Macro1Ops
  /\ out.args[1] = <<" ">>
  /\ out.branch = "thrown"
  /\ \E k \in 1..Len(doc) : \E i \in 1..Len(doc[k]) : doc[k][i].color # ""

\* C14 happens in the cross-origin variant too: called with a blank term
\* while a request is pending
C14_WitnessCrossOrigin ==
  /\ mounted = "onlyoffice"
  /\ out.op \in Macro1Ops
  /\ out.args[1] = <<" ">>
  /\ out.branch = "thrown"
  /\ requestMap # {}

\* the text of the document up to position p and from position p on,
\* paragraph boundaries left out
CharsOf(tokens) == SelectSeq(tokens, LAMBDA t : t \notin {P_OPEN, P_CLOSE})
TextOf(tokens) == [i \in 1..Len(CharsOf(tokens)) |-> CharsOf(tokens)[i].c]
TextUpTo(d, p) == TextOf(SubSeq(Flat(d), 1, p))
TextFrom(d, p) == TextOf(SubSeq(Flat(d), p + 1, Len(Flat(d))))

\* replaceSelectionRich(text, markup) with nothing to insert rejects and
\* changes nothing
RejectsEmptyContent ==
  (out'.op = "replaceSelectionRich" /\ ~NonBlank(out'.args[1]) /\ ~NonBlank(out'.args[2]))
    => /\ out'.branch = "thrown"
       /\ out'.settled = {Rejected(0, "replaceSelectionRich", Err("Texto vazio para substituir.", ""))}
       /\ out'.inserted = NoInsert
       /\ out'.posted = {}
       /\ out'.emitted = <<>>
       /\ doc' = doc
       /\ edSel' = edSel
       /\ lastSelection' = lastSelection
       /\ requestMap' = requestMap
       /\ timers' = timers
       /\ promise' = promise

\* the in-process replaceSelectionRich inserts the html when there is one,
\* else the text, in place of the selection
InsertsHtmlElseText ==
  (mounted = "html" /\ out'.op = "replaceSelectionRich"
     /\ (NonBlank(out'.args[1]) \/ NonBlank(out'.args[2])))
    => /\ out'.inserted.kind = IF NonBlank(out'.args[2]) THEN "html" ELSE "text"
       /\ IsTrimOf(out'.inserted.value,
                   IF NonBlank(out'.args[2]) THEN out'.args[2] ELSE out'.args[1])
       /\ TextOf(Flat(doc')) = TextUpTo(doc, edSel.from) \o HtmlText(out'.inserted.value)
                                 \o TextFrom(doc, edSel.to)
       /\ out'.emitted # <<>>

\* the cross-origin replaceSelectionRich posts one replaceSelection command
\* that carries the trimmed text and the trimmed html
PostsBoth ==
  (mounted = "onlyoffice" /\ out'.op = "replaceSelectionRich"
     /\ (NonBlank(out'.args[1]) \/ NonBlank(out'.args[2])))
    => /\ Cardinality(out'.posted) = 1
       /\ \A c \in out'.posted :
            /\ c.command = "replaceSelection"
            /\ IsTrimOf(c.payload.text, out'.args[1])
            /\ IsTrimOf(c.payload.html, out'.args[2])

\* C15 as stated: replaceSelectionRich(text, html) with both blank rejects
\* with the empty-content error and changes nothing; otherwise what is
\* inserted is the html when html is not blank, and the text only when html
\* is blank; so the remote handler pastes the html of every command that
\* carries one.
C15_InsertsHtmlWheneverGiven ==
  [][/\ RejectsEmptyContent
     /\ InsertsHtmlElseText
     /\ PostsBoth
     /\ out'.op = "plugin:replaceSelection"
          => out'.inserted.kind =
               IF NonBlank(StringOr(out'.args[1].html)) THEN "html" ELSE "text"]_vars

\* C15 amended: the same, except that the remote handler pastes the text of
\* the command, whatever html it carries, when reading the cursor style or
\* pasting the html throws.
C15_InsertsHtmlUnlessRichPasteFails ==
  [][/\ RejectsEmptyContent
     /\ InsertsHtmlElseText
     /\ PostsBoth
     /\ out'.op = "plugin:replaceSelection"
          => /\ out'.inserted.kind =
                  IF NonBlank(StringOr(out'.args[1].html)) /\ out'.branch # "fallback"
                  THEN "html" ELSE "text"
             /\ out'.inserted.kind = "html"
                  => HtmlText(out'.inserted.value) = HtmlText(out'.args[1].html)
             /\ out'.inserted.kind = "text"
                  => out'.inserted.value = StringOr(out'.args[1].text)
             /\ TextOf(Flat(doc')) = TextUpTo(doc, edSel.from)
                                       \o HtmlText(out'.inserted.value)
                                       \o TextFrom(doc, edSel.to)]_vars

\* C15 happens: the remote handler fell back to the text of a command that
\* carries html, with text selected in the office document
C15_Witness ==
  /\ out.op = "plugin:replaceSelection"
  /\ out.branch = "fallback"
  /\ NonBlank(StringOr(out.args[1].html))
  /\ out.inserted.kind = "text"
  /\ out.inserted.value # <<>>

\* C15 happens in the in-process variant: html and text given, the html
\* inserted in place of a selection
C15_WitnessInProcess ==
  /\ mounted = "html"
  /\ out.op = "replaceSelectionRich"
  /\ NonBlank(out.args[1])
  /\ out.inserted.kind = "html"
  /\ \E k \in 1..Len(doc) : \E i \in 1..Len(doc[k]) : doc[k][i] = Ch("A", "#fef08a")

\* C15 happens in the rejecting case: both blank, not both empty
C15_WitnessRejected ==
  /\ out.op = "replaceSelectionRich"
  /\ out.branch = "thrown"
  /\ out.args = <<<<" ">>, <<" ">>>>

----------------------------------------------------------------------------
\* Claims about manual numbering (checked under SpecNumbering).

NumberingOps == {"runMacro2ManualNumberingSelection", "plugin:macro2ManualNumberingSelection"}

\* the numerals of 1..9 in one digit and of 1..99 in two
Numerals == <<"0", "1", "2", "3", "4", "5", "6", "7", "8", "9">>
Numeral1(i) == <<Numerals[i + 1]>>
Numeral2(i) == <<Numerals[(i \div 10) + 1], Numerals[(i % 10) + 1]>>

\* the paragraphs of d that differ from those of the document e before
Changed(e, d) == SelectSeq([k \in 1..Len(e) |-> k], LAMBDA k : d[k] # e[k])

\* does the text start with the characters of head
StartsWith(text, head) ==
  Len(text) >= Len(head) /\ SubSeq(text, 1, Len(head)) = head

C18_WitnessTen ==
  /\ out.op \in NumberingOps
  /\ out.converted = 10
  /\ StartsWith(ParaText(doc[1]), <<"0", "1", ".">>)
  /\ StartsWith(ParaText(doc[10]), <<"1", "0", ".">>)

\* the paragraphs with text that the selection touches, in document order
Touched(d, sel) ==
  SelectSeq([k \in 1..Len(d) |-> k],
            LAMBDA k : /\ ParaPos(d, k) < sel.to
                       /\ ParaPos(d, k) + Len(d[k]) + 2 > sel.from
                       /\ \E i \in 1..Len(d[k]) : d[k][i].c \notin {" ", NBSP})

\* the prefix the caller asked for
AskedSuffix(mode) ==
  IF mode = "normal_single" THEN <<" ">> ELSE <<NBSP, NBSP>>
AskedPrefix(i, count, mode) ==
  (IF count >= 10 THEN Numeral2(i) ELSE Numeral1(i)) \o <<".">> \o AskedSuffix(mode)

\* C19: the in-process runMacro2ManualNumberingSelection leaves the i-th
\* paragraph with text that the selection touches with the prefix of number
\* i followed by its text as it was, and every other paragraph as it was;
\* <<"A">>, <<"B", " ">>, <<"G">> with normal_single becomes "1. A", "2. B ",
\* "3. G".
C19_PrefixesInDocumentOrder ==
  [][(out'.op = "runMacro2ManualNumberingSelection" /\ out'.branch = "done")
       => /\ Len(doc') = Len(doc)
          /\ out'.converted = Len(Touched(doc, edSel))
          /\ \A k \in 1..Len(doc) :
               ParaText(doc'[k]) =
                 IF \E i \in 1..Len(Touched(doc, edSel)) : Touched(doc, edSel)[i] = k
                 THEN AskedPrefix(CHOOSE i \in 1..Len(Touched(doc, edSel)) :
                                    Touched(doc, edSel)[i] = k,
                                  Len(Touched(doc, edSel)), out'.args[1])
                        \o ParaText(doc[k])
                 ELSE ParaText(doc[k])]_vars

\* C19 happens: the example, all three paragraphs selected
C19_Witness ==
  /\ out.op = "runMacro2ManualNumberingSelection"
  /\ out.args = <<"normal_single">>
  /\ out.converted = 3
  /\ [k \in 1..Len(doc) |-> ParaText(doc[k])]
       = <<<<"1", ".", " ", "A">>, <<"2", ".", " ", "B", " ">>, <<"3", ".", " ", "G">>>>

\* C20: manual numbering fails with the empty-selection error and leaves
\* the document as it was whenever the selection touches no paragraph with
\* text other than white space.
C20_NoTextRejects ==
  [][(out'.op \in NumberingOps /\ Touched(doc, edSel) = <<>>)
       => /\ out'.branch \in {"thrown", "error"}
          /\ out'.converted = 0
          /\ doc' = doc
          /\ out'.emitted = <<>>]_vars

\* C20 for the in-process variant alone
C20_NoTextRejectsInProcess ==
  [][(out'.op = "runMacro2ManualNumberingSelection" /\ Touched(doc, edSel) = <<>>)
       => /\ out'.branch = "thrown"
          /\ out'.settled = {Rejected(0, out'.op, Err("Selecione uma lista no editor.", ""))}
          /\ out'.converted = 0
          /\ doc' = doc
          /\ edSel' = edSel
          /\ out'.emitted = <<>>]_vars

\* the in-process variant rejected a selection over blank paragraphs
C20_WitnessInProcess ==
  /\ out.op = "runMacro2ManualNumberingSelection"
  /\ out.branch = "thrown"
  /\ Len(doc) >= 2
  /\ ~Empty(edSel)

----------------------------------------------------------------------------
\* Claims about the document statistics (checked under SpecStats).

\* C21: the figures in-process getDocumentStats() returns are non-negative
\* integers, the count with spaces is the length of the document text and is
\* at least the count without spaces, and pages is 0 for the empty text and
\* otherwise the least number of pages of 3000 characters that hold the text
\* (at least 1)
C21_InProcessStatsConsistent ==
  (mounted = "html" /\ out.op = "getDocumentStats" /\ out.branch = "done") =>
    /\ \A f \in DOMAIN out.stats : out.stats[f] \in Nat
    /\ out.stats.symbolsWithSpaces = Len(GetText(doc))
    /\ out.stats.symbolsWithSpaces >= out.stats.symbols
    /\ IF out.stats.symbolsWithSpaces > 0
       THEN /\ out.stats.pages >= 1
            /\ (out.stats.pages - 1) * PAGE_SYMBOLS < out.stats.symbolsWithSpaces
            /\ out.stats.symbolsWithSpaces <= out.stats.pages * PAGE_SYMBOLS
       ELSE out.stats.pages = 0

\* the figures of a text one character longer than a page: two pages
C21_Witness ==
  /\ mounted = "html" /\ out.op = "getDocumentStats" /\ out.branch = "done"
  /\ out.stats.symbolsWithSpaces = PAGE_SYMBOLS + 1
  /\ out.stats.pages = 2

\* the figures of a short text with spaces: one page
C21_WitnessShort ==
  /\ mounted = "html" /\ out.op = "getDocumentStats" /\ out.branch = "done"
  /\ out.stats.symbolsWithSpaces > out.stats.symbols
  /\ out.stats.symbols > 0
  /\ out.stats.pages = 1

\* figures as the contract wants them: none negative, the count with spaces
\* at least the count without, and at least one page when there is a character
StatsConsistent(stats) ==
  /\ \A f \in DOMAIN stats : stats[f] >= 0
  /\ stats.symbolsWithSpaces >= stats.symbols
  /\ stats.symbolsWithSpaces > 0 => stats.pages >= 1

\* the figures the plugin computed in this step, if it computed any
PluginCounted == out.op = "plugin:getDocumentStats" /\ out.branch = "done"

\* the promises of getDocumentStats() resolved in this step
StatsResolved == {r \in out.settled : r.how = "resolve" /\ r.command = "getDocumentStats"}

\* C22: cross-origin getDocumentStats() never yields a negative figure, the
\* count with spaces is at least the count without, and there is at least one
\* page when there is a character: for the figures the plugin computes from
\* whatever the document reports, and for the figures the Control API resolves
\* with whatever the reply carries
C22_CrossOriginStatsConsistent ==
  /\ PluginCounted => StatsConsistent(out.stats)
  /\ \A r \in StatsResolved : StatsConsistent(r.value)

\* C22, the part that holds: no figure the plugin replies with is negative
C22_PluginFiguresNotNegative ==
  PluginCounted => \A f \in DOMAIN out.stats : out.stats[f] >= 0

\* the plugin counted a document that reports negative figures
C22_WitnessNegativeNative ==
  /\ PluginCounted
  /\ out.args[1].GetStatistics
  /\ FirstTruthy(out.args[1].statistics.symbols) < 0
  /\ out.stats.symbols > 0

----------------------------------------------------------------------------
\* Claims about the plugin's message listener (checked under SpecPlugin).

\* the outputs of the listener's run for a message event
HandlerOps == {"plugin:message"} \cup {"plugin:" \o command : command \in EditorCommands}

\* the step in which the listener runs for the message event received
HandleStep == out.op = "plugin:receive" /\ out'.op \in HandlerOps

\* the replies among the messages the plugin sent
Replies(sent) == SelectSeq(sent, LAMBDA m : m.type \in {"response", "error"})

\* the listener sent one reply, with the id of the message received: an
\* error with a message when the command failed, a response with a result
\* when it did not
OneReply ==
  /\ Len(Replies(out'.sent)) = 1
  /\ Replies(out'.sent)[1].payload.id = received.id
  /\ IF out'.branch \in {"error", "unsupported"}
     THEN /\ Replies(out'.sent)[1].type = "error"
          /\ Replies(out'.sent)[1].payload.message # ""
     ELSE /\ Replies(out'.sent)[1].type = "response"
          /\ "result" \in DOMAIN Replies(out'.sent)[1].payload

\* the listener answered that it does not know the command, called no method
\* of the office editor and changed nothing
Unsupported ==
  /\ out'.op = "plugin:message"
  /\ out'.branch = "unsupported"
  /\ Replies(out'.sent)[1].payload.message = "Comando nao suportado: " \o received.command
  /\ out'.apiCalls = <<>>
  /\ UNCHANGED <<doc, edSel, lastText, lastSelectionType>>

\* C23: for a message with the application's source tag and the type
\* command the listener sends exactly one reply with the message's id, a
\* response with the result or an error with a message; a command that no
\* copy of the plugin has a case for is answered with the unsupported-command
\* error, as is every command answered outside its case, and then no method
\* of the office editor is called; a message with another source tag or type
\* gets no reply and changes nothing
C23_OneReplyPerCommand ==
  [][HandleStep =>
       IF received.source = APP_SOURCE /\ received.type = "command"
       THEN /\ OneReply
            /\ received.command \notin EditorCommands => Unsupported
            /\ out'.branch = "unsupported" => Unsupported
            /\ out'.op # "plugin:message" => out'.op = "plugin:" \o received.command
       ELSE /\ out'.sent = <<>>
            /\ out'.apiCalls = <<>>
            /\ UNCHANGED <<doc, edSel, lastText, lastSelectionType>>]_vars

\* the listener answered a command no copy has a case for
C23_Witness ==
  /\ out.op = "plugin:message" /\ out.branch = "unsupported"
  /\ received.command = "print"
  /\ received.id = 2
  /\ Len(out.sent) = 1

\* the listener ignored a message of the application that is no command
C23_WitnessIgnored ==
  /\ out.op = "plugin:message" /\ out.branch = "ignored"
  /\ received.source = APP_SOURCE /\ received.type = "response"

\* the listener answered a command after sending the selection
C23_WitnessResponse ==
  /\ out.op = "plugin:selectAllContent" /\ out.branch = "done"
  /\ Len(out.sent) = 2

\* the listener answered a command whose editor method threw
C23_WitnessError ==
  /\ out.op = "plugin:getSelectedText" /\ out.branch = "error"

\* the commands the Remote Command Handler has to support
RequiredCommands ==
  {"getSelectedText", "selectAllContent", "replaceSelection", "refreshSelection",
   "getDocumentStats", "macro1HighlightDocument", "macro1ClearHighlightDocument"}

\* the listener answered the command received with the unsupported-command error
AnsweredUnsupported == out.op = "plugin:message" /\ out.branch = "unsupported"

\* C24: none of the commands getSelectedText, selectAllContent,
\* replaceSelection, refreshSelection, getDocumentStats,
\* macro1HighlightDocument and macro1ClearHighlightDocument is answered with
\* the unsupported-command error
C24_RequiredCommandsSupported ==
  AnsweredUnsupported => received.command \notin RequiredCommands

\* C24 for the copy of the plugin served with the editor page
C24_EditorCopySupportsRequired ==
  (AnsweredUnsupported /\ out.args[1] = "editor") => received.command \notin RequiredCommands

\* the copy served with the editor page answered getDocumentStats with figures
C24_WitnessEditorCopy ==
  /\ out.op = "plugin:getDocumentStats" /\ out.branch = "done"
  /\ received.command = "getDocumentStats"

----------------------------------------------------------------------------
\* Claims about the forced emissions (checked under SpecForced).

\* the selection messages among the messages the plugin sent
SelectionsSent(sent) == SelectSeq(sent, LAMBDA m : m.type = "selectionChanged")

\* the plugin ran a command that forces an emission and replied with a response
ForcingReplied ==
  /\ out'.op \in {"plugin:" \o command : command \in ForcingCommands}
  /\ out'.branch # "error"

\* the messages of the plugin carry one snapshot of the selection as it is
\* after the command
SentOneSnapshot ==
  /\ Len(SelectionsSent(out'.sent)) = 1
  /\ out'.sent[1].type = "selectionChanged"
  /\ out'.sent[1].payload.text = getSelectionSnapshot(doc', edSel').text
  /\ out'.sent[1].payload.selectionType = getSelectionSnapshot(doc', edSel').selectionType

\* every subscribed listener of the page was invoked once for each emission
AllNotified(set) == \A l \in Listeners : out'.notified[l] = IF l \in set THEN out'.emitted ELSE <<>>

\* a selection message of the plugin arrived at the page's handler: one
\* emission of its snapshot to every subscribed listener
ArrivalEmits ==
  (out'.op = "message" /\ out'.branch = "selectionChanged")
    => /\ out'.emitted = <<PayloadSnapshot(out'.msg)>>
       /\ AllNotified(selectionListeners)

\* C25 as stated: every successful selectAllContent() makes one emission to
\* all subscribed listeners, whatever the snapshot emitted before; so does,
\* in the office editor, every successful selectAllContent, refreshSelection
\* and replaceSelection command
C25_OneForcedEmission ==
  [][/\ (mounted = "html" /\ out'.op = "selectAllContent")
         => /\ out'.emitted = <<EditorSnapshot(doc', edSel')>>
            /\ AllNotified(listeners)
     /\ ForcingReplied => SentOneSnapshot
     /\ ArrivalEmits]_vars

\* C25 as the code has it: in process selectAllContent() makes one forced
\* emission, after one emission for each registration of the editor's
\* selectionUpdate handler when select-all moved the selection; each goes to
\* all subscribed listeners.  In the office editor a successful
\* selectAllContent, refreshSelection or replaceSelection command sends one
\* snapshot whatever was sent before, unless the reads of the selection
\* threw: then it sends none and still replies with a response
C25_ForcedEmissionUnlessUnread ==
  [][/\ (mounted = "html" /\ out'.op = "selectAllContent")
         => /\ out'.emitted =
                 Emissions(EditorSnapshot(doc', edSel'),
                           (IF edSel' # edSel THEN editorOn ELSE 0) + 1)
            /\ AllNotified(listeners)
     /\ ForcingReplied
         => IF out'.args[Len(out'.args)].reads THEN SentOneSnapshot
            ELSE SelectionsSent(out'.sent) = <<>>
     /\ ArrivalEmits]_vars

\* refreshSelection sent the snapshot it had sent last
C25_Witness ==
  /\ out.op = "plugin:refreshSelection"
  /\ out.args[1].reads
  /\ Len(out.sent) = 2
  /\ out.sent[1].payload.text = out.args[1].lastText
  /\ out.sent[1].payload.selectionType = out.args[1].lastSelectionType
  /\ out.args[1].lastText # <<>>

\* selectAllContent() on a selection that was all of the document: one
\* emission, to two listeners
C25_WitnessInProcess ==
  /\ mounted = "html" /\ out.op = "selectAllContent"
  /\ editorOn > 0
  /\ listeners = Listeners
  /\ Len(out.emitted) = 1
  /\ out.emitted[1].text # <<>>

\* selectAllContent() that moved the selection: two emissions
C25_WitnessTwice ==
  /\ mounted = "html" /\ out.op = "selectAllContent"
  /\ listeners # {}
  /\ Len(out.emitted) = 2

\* a command replied with a response and sent no snapshot
C25_WitnessUnread ==
  /\ out.op = "plugin:refreshSelection"
  /\ ~out.args[1].reads
  /\ Len(out.sent) = 1 /\ out.sent[1].type = "response"

\* the snapshot the plugin sent reached the page's two listeners
C25_WitnessArrival ==
  /\ out.op = "message" /\ out.branch = "selectionChanged"
  /\ selectionListeners = Listeners
  /\ out.emitted # <<>>

----------------------------------------------------------------------------
\* Claims about destroy() (checked under SpecSelection).

\* what a destroy() of the mounted variant leaves: no handler of the editor
\* or the window registered, no listener, and in the office variant no
\* pending request
Destroyed ==
  IF mounted = "html"
  THEN editorOn' = 0 /\ listeners' = {}
  ELSE /\ messageHandler' = FALSE
       /\ selectionListeners' = {}
       /\ requestMap' = {}

\* C26: destroy() completes whether or not init() was called, leaves no
\* handler registered, no listener and no pending request, and rejects only
\* requests that were pending; a destroy() right after a destroy() rejects
\* nothing and leaves every variable as the first one left it
C26_DestroyIdempotent ==
  [][/\ out'.op = "destroy"
         => /\ Destroyed
            /\ \A r \in out'.settled :
                 r.how = "reject" /\ r.id \in requestMap /\ promise[r.id].state = "pending"
            /\ Cardinality(out'.settled) = Cardinality(requestMap)
     /\ (out.op = "destroy" /\ out'.op = "destroy")
         => /\ out'.settled = {}
            /\ UNCHANGED <<ooVars, htmlVars, pluginVars>>]_vars

\* destroy() of the office variant rejected a pending request after init();
\* the next destroy() starts from this state
C26_Witness ==
  /\ mounted = "onlyoffice" /\ out.op = "destroy"
  /\ out.settled # {}
  /\ requestMap = {} /\ ~messageHandler
  /\ \E c \in InitCalls : initPc[c] # "idle"

\* destroy() of the in-process variant with no init() before it
C26_WitnessInProcess ==
  /\ mounted = "html" /\ out.op = "destroy"
  /\ editorOn = 0 /\ listeners = {}
  /\ lastSelection = Snapshot(<<>>, "none", 1)

----------------------------------------------------------------------------
\* Claims about the document functions on HTML strings, continued (checked
\* under SpecHighlight).

\* the mark elements of a child list in document order, nested ones included
RECURSIVE Markers(_)
Markers(kids) ==
  IF kids = <<>> THEN <<>>
  ELSE (IF Head(kids).tag = "#text" THEN <<>>
        ELSE (IF Head(kids).tag = "mark" THEN <<Head(kids)>> ELSE <<>>)
             \o Markers(Head(kids).kids))
       \o Markers(Tail(kids))

\* the mark elements in document order that are neither a mark whose text
\* holds the term nor inside one
RECURSIVE MarkersOutside(_, _)
MarkersOutside(kids, term) ==
  IF kids = <<>> THEN <<>>
  ELSE (IF Head(kids).tag = "#text" THEN <<>>
        ELSE IF Head(kids).tag = "mark" /\ Occurs(term, TextContent(Head(kids).kids)) THEN <<>>
        ELSE (IF Head(kids).tag = "mark" THEN <<Head(kids)>> ELSE <<>>)
             \o MarkersOutside(Head(kids).kids, term))
       \o MarkersOutside(Tail(kids), term)

\* the text of the marker is one occurrence of the term: the marker belongs
\* to the term
BelongsTo(node, term) ==
  Len(TextContent(node.kids)) = Len(term) /\ Occurs(term, TextContent(node.kids))

\* ClearHighlight has just run with term t
ClearedWith(term) ==
  out.op = "clearHighlightInHtml" /\ out.chain[Len(out.chain)].term = term

\* C27 as stated: ClearHighlight(html, t) unwraps exactly the markers whose
\* text is an occurrence of t; every marker of another term u stays, with its
\* text and color, also when t occurs inside u; no text is deleted, and
\* matches is the number of markers unwrapped.
C27_ClearsOnlyMarkersOfTerm ==
  \A t \in Terms :
    ClearedWith(t) =>
      /\ Markers(ParseHtml(html))
           = SelectSeq(Markers(ParseHtml(out.before)), LAMBDA m : ~BelongsTo(m, t))
      /\ HtmlText(html) = HtmlText(out.before)
      /\ out.matches = Len(Markers(ParseHtml(out.before))) - Len(Markers(ParseHtml(html)))

\* C27 amended: ClearHighlight(html, t) unwraps exactly the markers whose
\* text contains an occurrence of t, whatever the case of the letters, so a
\* marker of another term u is unwrapped too when t occurs inside u; every
\* marker outside the unwrapped ones stays with its text and color, no text
\* is deleted, and matches is the number of markers whose text contains t.
C27_ClearsMarkersContainingTerm ==
  \A t \in Terms :
    ClearedWith(t) =>
      /\ Markers(ParseHtml(html)) = MarkersOutside(ParseHtml(out.before), t)
      /\ HtmlText(html) = HtmlText(out.before)
      /\ out.matches
           = Len(SelectSeq(Markers(ParseHtml(out.before)),
                           LAMBDA m : Occurs(t, TextContent(m.kids))))
      /\ out.cleared = out.matches

\* C27 witness: clearing "a" unwrapped the marker of the term "a." and left the
\* marker of the term "." as it was
C27_Witness ==
  /\ ClearedWith(<<"a">>)
  /\ out.before = <<MarkOpen("#86efac"), "a", ".", "</mark>", MarkOpen("#86efac"), ".", "</mark>">>
  /\ html = <<"a", ".", MarkOpen("#86efac"), ".", "</mark>">>
  /\ out.matches = 1

\* clearing "a" after highlighting "a" left the marker of the term "." and
\* unwrapped the marker Highlight had added
C27_WitnessAfterHighlight ==
  /\ ClearedWith(<<"a">>) /\ Len(out.chain) = 2 /\ out.chain[1].fn = "highlight"
  /\ out.origin = <<"A", MarkOpen("#86efac"), ".", "</mark>">>
  /\ html = out.origin
  /\ out.matches = 1

\* does the term occur in the text at offset i, whatever the case of the letters
OccursAt(term, text, i) ==
  /\ i + Len(term) - 1 <= Len(text)
  /\ \A k \in 1..Len(term) : SameLetter(term[k], text[i + k - 1])

\* the occurrences of the term in one text, overlapping ones included
Occurrences(term, text) == Cardinality({i \in 1..Len(text) : OccursAt(term, text, i)})

\* the occurrences of the term in one text taken from the left, each one
\* starting after the end of the one before
RECURSIVE DisjointOccurrences(_, _, _)
DisjointOccurrences(term, text, i) ==
  IF i > Len(text) THEN 0
  ELSE IF OccursAt(term, text, i) THEN 1 + DisjointOccurrences(term, text, i + Len(term))
  ELSE DisjointOccurrences(term, text, i + 1)

\* the text nodes of a child list that are not children of a mark, in
\* document order
RECURSIVE TextsOutsideMarks(_, _)
TextsOutsideMarks(kids, parentTag) ==
  IF kids = <<>> THEN <<>>
  ELSE (IF Head(kids).tag = "#text"
        THEN (IF parentTag = "mark" THEN <<>> ELSE <<Head(kids).text>>)
        ELSE TextsOutsideMarks(Head(kids).kids, Head(kids).tag))
       \o TextsOutsideMarks(Tail(kids), parentTag)

\* Highlight has just run with term t
HighlightedWith(term) ==
  out.op = "highlightInHtml" /\ out.chain[Len(out.chain)].term = term

\* C28 as stated: Highlight counts every occurrence of the term that lies
\* inside one text node, adjacent and overlapping occurrences included, and
\* no occurrence that is split across text nodes.
C28_CountsEveryOccurrence ==
  \A t \in Terms :
    HighlightedWith(t) =>
      out.matches = Sum([i \in 1..Len(TextsOutsideMarks(ParseHtml(out.before), "div")) |->
                           Occurrences(t, TextsOutsideMarks(ParseHtml(out.before), "div")[i])])

\* what holds instead: Highlight counts, in each text node, the occurrences
\* taken from the left that do not overlap the one before, wraps each of them
\* in a marker of its own, and counts no occurrence split across text nodes
C28_CountsDisjointOccurrences ==
  \A t \in Terms :
    HighlightedWith(t) =>
      /\ out.matches
           = Sum([i \in 1..Len(TextsOutsideMarks(ParseHtml(out.before), "div")) |->
                    DisjointOccurrences(t, TextsOutsideMarks(ParseHtml(out.before), "div")[i], 1)])
      /\ out.matches = Len(Markers(ParseHtml(html))) - Len(Markers(ParseHtml(out.before)))

\* Highlight of "aa" in the text "aaa" reported one match
C28_WitnessOverlap ==
  /\ HighlightedWith(<<"a", "a">>)
  /\ out.before = <<"a", "a", "a">>
  /\ out.matches = 1
  /\ html = <<MarkOpen("#fef08a"), "a", "a", "</mark>", "a">>

\* two adjacent occurrences in one text node were both counted and wrapped
C28_WitnessAdjacent ==
  /\ HighlightedWith(<<"a">>)
  /\ out.before = <<"a", "A">>
  /\ out.matches = 2
  /\ html = <<MarkOpen("#fef08a"), "a", "</mark>", MarkOpen("#fef08a"), "A", "</mark>">>

\* the occurrence split between a text node and the bold text after it was
\* not counted
C28_WitnessSplit ==
  /\ HighlightedWith(<<"a", ".">>)
  /\ out.before = <<"a", "<strong>", ".", "</strong>">>
  /\ out.matches = 0
  /\ html = out.before

\* the text nodes of a child list in document order
RECURSIVE AllTexts(_)
AllTexts(kids) ==
  IF kids = <<>> THEN <<>>
  ELSE (IF Head(kids).tag = "#text" THEN <<Head(kids).text>> ELSE AllTexts(Head(kids).kids))
       \o AllTexts(Tail(kids))

\* CountOccurrences has just run with term t
CountedWith(term) ==
  out.op = "countOccurrencesInHtml" /\ out.chain[Len(out.chain)].term = term

\* no character of the term is white space
Unspaced(term) == \A k \in 1..Len(term) : ~IsSpace(term[k])

\* C29 as stated: for every HTML string, with markers or without, and every
\* non-empty term t, CountOccurrences returns the matches Highlight reports
\* on that string with t; for an empty or a blank term it returns 0; it
\* leaves the document as it was.
C29_CountMirrorsHighlight ==
  \A t \in CountTerms :
    CountedWith(t) =>
      /\ html = out.before
      /\ Trim(t) = <<>> => out.matches = 0
      /\ t # <<>> /\ Trim(t) # <<>> =>
           \A c \in Colors : out.matches = highlightInHtml(out.before, t, c).matches

\* what holds instead: for a term with no white space around it the two
\* agree on every string in which no text node is the child of a marker; in
\* general CountOccurrences returns the matches of Highlight plus the
\* matches in the text nodes that are children of markers
C29_CountAddsMarkedText ==
  \A t \in CountTerms :
    CountedWith(t) =>
      /\ html = out.before
      /\ Trim(t) = <<>> => out.matches = 0
      /\ t # <<>> /\ Unspaced(t) =>
           /\ out.matches >= highlightInHtml(out.before, t, "#fef08a").matches
           /\ out.matches
                = Sum([i \in 1..Len(AllTexts(ParseHtml(out.before))) |->
                         DisjointOccurrences(t, AllTexts(ParseHtml(out.before))[i], 1)])
           /\ TextsOutsideMarks(ParseHtml(out.before), "div")
                = AllTexts(ParseHtml(out.before))
                => out.matches = highlightInHtml(out.before, t, "#fef08a").matches

\* CountOccurrences counted the occurrence inside a marker, which Highlight
\* does not count
C29_WitnessMarked ==
  /\ CountedWith(<<"a">>)
  /\ out.before = <<"a", MarkOpen("#86efac"), "A", "</mark>">>
  /\ out.matches = 2
  /\ highlightInHtml(out.before, <<"a">>, "#fef08a").matches = 1

\* CountOccurrences after Highlight with the same term: every occurrence is
\* inside a marker by then
C29_WitnessAfterHighlight ==
  /\ CountedWith(<<"a">>) /\ Len(out.chain) = 2 /\ out.chain[1].fn = "highlight"
  /\ out.chain[1].term = <<"a">>
  /\ out.origin = <<"a", "A">>
  /\ out.matches = 2
  /\ highlightInHtml(out.before, <<"a">>, "#fef08a").matches = 0

\* the term with a space before it: CountOccurrences trims it, Highlight
\* does not
C29_WitnessTrimmed ==
  /\ CountedWith(<<" ", "a">>)
  /\ out.before = <<"a">>
  /\ out.matches = 1
  /\ highlightInHtml(out.before, <<" ", "a">>, "#fef08a").matches = 0

\* a blank term on a string with text
C29_WitnessBlank ==
  /\ CountedWith(<<" ">>)
  /\ out.before = <<"a", ".">>
  /\ out.matches = 0

----------------------------------------------------------------------------
\* Claims about manual numbering, continued (checked under SpecNumbering).

\* is paragraph k of the document empty or white space only
Blank(d, k) == \A i \in 1..Len(d[k]) : d[k][i].c \in {" ", NBSP}

\* C30 as stated: the converted count of a manual numbering, in-process or
\* by the remote handler, is the number of paragraphs that received a prefix
\* and the number of paragraphs with text that the selection touches; a
\* paragraph with no text other than white space is neither numbered nor
\* counted.
C30_ConvertedCountsTextParagraphs ==
  [][(out'.op \in NumberingOps /\ out'.branch = "done")
       => /\ out'.converted = Len(Changed(doc, doc'))
          /\ out'.converted = Len(Touched(doc, edSel))
          /\ \A i \in 1..Len(Changed(doc, doc')) : ~Blank(doc, Changed(doc, doc')[i])]_vars

\* what holds of both variants: converted is the number of paragraphs that
\* received a prefix, it is at least 1 and at least the number of paragraphs
\* with text that the selection touches
C30_ConvertedCountsPrefixed ==
  [][(out'.op \in NumberingOps /\ out'.branch = "done")
       => /\ out'.converted = Len(Changed(doc, doc'))
          /\ out'.converted >= 1
          /\ out'.converted >= Len(Touched(doc, edSel))]_vars

\* what holds of the in-process variant: C30 as stated
C30_InProcessConvertedCountsTextParagraphs ==
  [][(out'.op = "runMacro2ManualNumberingSelection" /\ out'.branch = "done")
       => /\ out'.converted = Len(Changed(doc, doc'))
          /\ out'.converted = Len(Touched(doc, edSel))
          /\ out'.hadNumbering = out'.converted
          /\ \A i \in 1..Len(Changed(doc, doc')) : ~Blank(doc, Changed(doc, doc')[i])]_vars

\* the remote handler numbered a blank paragraph between two paragraphs with
\* text and counted it: converted 3, two paragraphs with text
C30_WitnessBlankNumbered ==
  /\ out.op = "plugin:macro2ManualNumberingSelection" /\ out.branch = "done"
  /\ out.converted = 3
  /\ [k \in 1..Len(doc) |-> ParaText(doc[k])]
       = <<<<"1", ".", NBSP, NBSP, "A">>, <<"2", ".", NBSP, NBSP, " ">>,
           <<"3", ".", NBSP, NBSP, "A">>>>

\* the in-process variant skipped the blank paragraph: converted 2
C30_WitnessInProcess ==
  /\ out.op = "runMacro2ManualNumberingSelection" /\ out.branch = "done"
  /\ out.converted = 2
  /\ [k \in 1..Len(doc) |-> ParaText(doc[k])]
       = <<<<"1", ".", NBSP, NBSP, "A">>, <<" ">>, <<"2", ".", NBSP, NBSP, "A">>>>

\* C31: the hadNumbering a manual numbering returns is the number of selected
\* paragraphs that were in an automatic numbered list before it ran; the
\* paragraphs of the documents here are plain, none is in a numbered list, so
\* hadNumbering is 0 whatever converted is.
C31_HadNumberingCountsListParagraphs ==
  (out.op \in NumberingOps /\ out.branch = "done") => out.hadNumbering = 0

\* what the in-process variant returns instead: hadNumbering is converted
C31_InProcessHadNumberingIsConverted ==
  (out.op = "runMacro2ManualNumberingSelection" /\ out.branch = "done")
    => out.hadNumbering = out.converted /\ out.converted >= 1

\* the in-process variant numbered the three plain paragraphs of the example
\* and returned hadNumbering 3
C31_WitnessInProcess ==
  /\ out.op = "runMacro2ManualNumberingSelection" /\ out.branch = "done"
  /\ out.converted = 3 /\ out.hadNumbering = 3
  /\ [k \in 1..Len(doc) |-> ParaText(doc[k])]
       = <<<<"1", ".", " ", "A">>, <<"2", ".", " ", "B", " ">>, <<"3", ".", " ", "G">>>>

\* the remote handler numbered plain paragraphs and returned hadNumbering 0
C31_WitnessRemote ==
  /\ out.op = "plugin:macro2ManualNumberingSelection" /\ out.branch = "done"
  /\ out.converted = 3 /\ out.hadNumbering = 0

\* the suffix the specification gives for a spacing mode
RequestedSuffix(mode) ==
  [i \in 1..(IF mode \in {"normal_double", "nbsp_double"} THEN 2 ELSE 1) |->
     IF mode \in {"normal_single", "normal_double"} THEN " " ELSE NBSP]

\* every paragraph the step changed holds a numeral, a dot and the suffix in
\* front of its text as it was
PrefixedWith(suffix) ==
  \A i \in 1..Len(Changed(doc, doc')) :
    LET k == Changed(doc, doc')[i]
    IN  ParaText(doc'[k]) = Numeral1(i) \o <<".">> \o suffix \o ParaText(doc[k])

\* C32: the suffix after the numeral and the dot is the one of the spacing
\* mode the caller asked for, one or two ordinary or non-breaking spaces, for
\* the in-process numbering and for the remote handler, which is asked in the
\* payload of its command.
C32_SuffixOfRequestedMode ==
  [][(out'.op \in NumberingOps /\ out'.branch = "done" /\ out'.args[1] \in SpacingModes)
       => PrefixedWith(RequestedSuffix(out'.args[1]))]_vars

\* what holds of the in-process variant: C32 as stated
C32_InProcessSuffixOfRequestedMode ==
  [][(out'.op = "runMacro2ManualNumberingSelection" /\ out'.branch = "done")
       => PrefixedWith(RequestedSuffix(out'.args[1]))]_vars

\* what holds of the remote handler: two non-breaking spaces whatever the
\* payload asks for
C32_RemoteSuffixFixed ==
  [][(out'.op = "plugin:macro2ManualNumberingSelection" /\ out'.branch = "done")
       => PrefixedWith(<<NBSP, NBSP>>)]_vars

\* the remote handler was asked for one ordinary space and wrote two
\* non-breaking ones
C32_WitnessRemote ==
  /\ out.op = "plugin:macro2ManualNumberingSelection" /\ out.branch = "done"
  /\ out.args = <<"normal_single">>
  /\ [k \in 1..Len(doc) |-> ParaText(doc[k])]
       = <<<<"1", ".", NBSP, NBSP, "A">>, <<"2", ".", NBSP, NBSP, "A">>>>

\* the in-process variant was asked for two ordinary spaces and wrote them
C32_WitnessInProcess ==
  /\ out.op = "runMacro2ManualNumberingSelection" /\ out.branch = "done"
  /\ out.args = <<"normal_double">>
  /\ [k \in 1..Len(doc) |-> ParaText(doc[k])]
       = <<<<"1", ".", " ", " ", "A">>, <<"2", ".", " ", " ", "A">>>>

----------------------------------------------------------------------------
\* Claims about the selection checks of the plugin (checked under
\* SpecChecks).

\* the step posts a selectionChanged message from a check that was not forced
PostsUnforced ==
  /\ out'.op = "plugin:emitSelectionIfChanged"
  /\ out'.sent # <<>>
  /\ out'.args = <<FALSE>>

\* C33: a selection check that is not forced posts a selectionChanged message
\* only when the text or the selection type it read differs from those of
\* the message posted last, so no message of an unforced check carries the
\* text and the selection type of the message posted immediately before it,
\* however the checks of the poll timer, of mouse-ups and of commands overlap.
C33_UnforcedMessageDiffersFromLast ==
  [][/\ PostsUnforced
        => /\ Len(out'.sent) = 1
           /\ out'.sent[1].type = "selectionChanged"
           /\ <<out'.sent[1].payload.text, out'.sent[1].payload.selectionType>>
                # <<lastSent.text, lastSent.selectionType>>
     /\ (out'.op = "plugin:emitSelectionIfChanged" /\ out'.branch = "same")
        => /\ out'.args = <<FALSE>>
           /\ UNCHANGED <<lastSent, lastText, lastSelectionType>>
           /\ <<checks[out'.id].text, checks[out'.id].selectionType>>
                = <<lastSent.text, lastSent.selectionType>>]_vars

\* two unforced checks overlapped: both read the same new selection, the
\* first to resume posted it, and the second has just resumed and posted
\* nothing
C33_Witness ==
  /\ out.op = "plugin:emitSelectionIfChanged" /\ out.branch = "same"
  /\ out.args = <<FALSE>> /\ out.id = 2
  /\ lastSent.text = <<" ">> /\ lastSent.selectionType = "text"
  /\ edSel = Sel(2, 3)
  /\ \A c \in CheckIds : checks[c].pc = "idle"

\* an unforced check posted a snapshot that it read before the selection
\* moved and before another check posted the newer one
C33_WitnessStale ==
  /\ out.op = "plugin:emitSelectionIfChanged" /\ out.branch = "changed"
  /\ out.args = <<FALSE>>
  /\ out.sent[1].payload.text # getSelectionSnapshot(doc, edSel).text
  /\ lastSent = out.sent[1].payload

\* a forced check posted the snapshot that was posted last
C33_WitnessForcedRepeats ==
  /\ out.op = "plugin:emitSelectionIfChanged" /\ out.branch = "changed"
  /\ out.args = <<TRUE>>
  /\ lastText = <<" ">>
  /\ \E c \in CheckIds : checks[c].pc = "read" /\ checks[c].text = <<" ">> /\ ~checks[c].force

----------------------------------------------------------------------------
\* Claims about the snapshots of either Control API, continued (checked
\* under SpecSelection).

\* the snapshots the step handed to listeners carry changedAt values that
\* do not decrease, the first not below `from`
NotDecreasing(emitted, from) ==
  \A i \in 1..Len(emitted) :
    emitted[i].changedAt >= (IF i = 1 THEN from ELSE emitted[i - 1].changedAt)

\* C34: the changedAt of the snapshots a Control API stores and hands to its
\* listeners never decreases from one emission to the next, starting from
\* the snapshot made at construction; for the office variant whatever the
\* changedAt of the selectionChanged payloads.
C34_ChangedAtNeverDecreases ==
  [][/\ latestSelection'.changedAt >= latestSelection.changedAt
     /\ lastSelection'.changedAt >= lastSelection.changedAt
     /\ NotDecreasing(out'.emitted,
                      IF mounted = "html" THEN lastSelection.changedAt
                      ELSE latestSelection.changedAt)]_vars

\* what holds of the in-process variant: C34 as stated
C34_InProcessChangedAtNeverDecreases ==
  [][mounted = "html"
       => /\ lastSelection'.changedAt >= lastSelection.changedAt
          /\ lastSelection'.changedAt <= clock'
          /\ NotDecreasing(out'.emitted, lastSelection.changedAt)]_vars

\* the office variant stored, and handed to a listener, a snapshot with the
\* changedAt of its payload, which is ahead of the clock: the next snapshot
\* stamped with Date.now() is older
C34_WitnessAhead ==
  /\ mounted = "onlyoffice" /\ out.branch = "selectionChanged"
  /\ out.msg.changedAt = MaxClock /\ clock < MaxClock
  /\ latestSelection.changedAt = MaxClock
  /\ \E l \in Listeners : out.notified[l] # <<>>

\* the in-process variant emitted to a listener after time had passed
C34_WitnessInProcess ==
  /\ mounted = "html" /\ out.emitted # <<>>
  /\ lastSelection.changedAt = MaxClock
  /\ \E l \in Listeners : out.notified[l] # <<>>

----------------------------------------------------------------------------
\* Claims about the counts of the highlight commands (checked under
\* SpecMarks).

HighlightOps == {"runMacro1HighlightDocument", "plugin:macro1HighlightDocument"}
ClearOps == {"clearMacro1HighlightDocument", "plugin:macro1ClearHighlightDocument"}

\* the occurrences of the terms in the paragraphs ks of the document
OccurrencesIn(d, ks, terms) ==
  Sum([t \in 1..Len(terms) |->
         Sum([k \in 1..Len(d) |->
                IF k \in ks THEN DisjointOccurrences(terms[t], ParaText(d[k]), 1) ELSE 0])])

\* C35: a highlight returns highlighted <= matches and a clear returns
\* cleared <= matches, in-process and in the remote handler; when the ranges
\* of some paragraphs cannot be set the remote handler still replies ok, sets
\* the ranges of the other paragraphs, and returns a count smaller by the
\* ranges it could not set.
C35_MarkedNeverExceedsMatches ==
  [][/\ (out'.op \in HighlightOps /\ out'.branch = "done")
         => out'.highlighted <= out'.matches /\ out'.highlighted >= 0
     /\ (out'.op \in ClearOps /\ out'.branch = "done")
         => out'.cleared <= out'.matches /\ out'.cleared >= 0
     /\ (out'.op \in {"plugin:macro1HighlightDocument", "plugin:macro1ClearHighlightDocument"}
           /\ parseTermsFromInput(out'.args[1].text) # <<>>)
         => LET terms == parseTermsFromInput(out'.args[1].text)
                broken == out'.args[2]
                marked == IF out'.op \in HighlightOps THEN out'.highlighted ELSE out'.cleared
            IN /\ out'.branch = "done"
               /\ out'.sent[1].type = "response" /\ out'.sent[1].payload.result.ok
               /\ out'.sent[1].payload.result.matches = out'.matches
               /\ out'.matches = OccurrencesIn(doc, 1..Len(doc), terms)
               /\ marked = out'.matches - OccurrencesIn(doc, broken, terms)
               /\ marked = (IF out'.op \in HighlightOps
                            THEN out'.sent[1].payload.result.highlighted
                            ELSE out'.sent[1].payload.result.cleared)
               /\ \A k \in 1..Len(doc) :
                    k \in broken => doc'[k] = doc[k]
               /\ \A k \in (1..Len(doc)) \ broken : \A i \in 1..Len(doc[k]) :
                    (\E t \in 1..Len(terms) : \E o \in 1..i :
                       /\ o + Len(terms[t]) > i
                       /\ OccursAt(terms[t], ParaText(doc[k]), o))
                      => doc'[k][i].color
                           = (IF out'.op \in HighlightOps
                              THEN PluginHighlightColor(out'.args[1].color) ELSE "")]_vars

\* the remote handler found three occurrences, could not set the two of the
\* first paragraph, set the one of the second and replied highlighted 1
C35_Witness ==
  /\ out.op = "plugin:macro1HighlightDocument" /\ out.branch = "done"
  /\ out.args[2] = {1}
  /\ out.matches = 3 /\ out.highlighted = 1
  /\ doc = <<Plain(<<"a", " ", "A">>), <<Ch("a", "yellow")>>>>

\* the remote handler could clear none of the ranges and replied cleared 0
C35_WitnessClear ==
  /\ out.op = "plugin:macro1ClearHighlightDocument" /\ out.branch = "done"
  /\ out.args[2] = {1}
  /\ out.matches = 2 /\ out.cleared = 0
  /\ doc = <<<<Ch("a", "#86efac"), Ch("A", "")>>>>

\* the in-process highlight wrapped every match it found
C35_WitnessInProcess ==
  /\ out.op = "runMacro1HighlightDocument" /\ out.branch = "done"
  /\ out.matches = 3 /\ out.highlighted = 3

----------------------------------------------------------------------------
\* Claims about the order of the plugin's messages (checked under SpecChannel).

ForcingOps == {"plugin:selectAllContent", "plugin:replaceSelection", "plugin:refreshSelection"}

\* the step is the plugin's handling of a forcing command that did not throw
ForcingHandled == out'.op \in ForcingOps /\ out'.branch # "error"

\* the step is the page's resolving the promise of the forcing command the
\* plugin handled last
ForcingResolved ==
  /\ out'.op = "message" /\ out'.branch = "reply" /\ out'.msg.type = "response"
  /\ promise[out'.msg.id].command \in ForcingCommands
  /\ received.id = out'.msg.id

\* C36: the handler of selectAllContent, replaceSelection and
\* refreshSelection posts the selectionChanged message with the selection as
\* the command left it and then the response, or the response alone when the
\* reads of the selection failed; so, the channel keeping the order, when the
\* page resolves the command's promise its latest snapshot is the one the
\* plugin posted last.
C36_SelectionPrecedesResponse ==
  [][/\ ForcingHandled =>
        /\ out'.sent =
             (IF out'.args[Len(out'.args)].reads
              THEN <<PluginSend("selectionChanged", getSelectionSnapshot(doc', edSel'))>>
              ELSE <<>>) \o <<Response(out'.id, [ok |-> TRUE])>>
        /\ wire'.queue = wire.queue \o out'.sent
     /\ ForcingResolved /\ lastSent # NothingSent =>
        latestSelection' = PayloadSnapshot(Posted(PluginSend("selectionChanged", lastSent)))]_vars

\* the page resolved the promise of selectAllContent with the snapshot of the
\* whole document as its latest one
C36_Witness ==
  /\ out.op = "message" /\ out.branch = "reply" /\ out.msg.type = "response"
  /\ promise[out.msg.id].state = "fulfilled"
  /\ received.id = out.msg.id /\ received.command = "selectAllContent"
  /\ doc = <<Plain(<<"a", " ", "A">>), Plain(<<>>)>>
  /\ latestSelection.text = TextBetween(doc, 0, DocSize(doc))
  /\ latestSelection.selectionType = "text"
  /\ lastSent.text = latestSelection.text

\* the reads of the selection failed: the plugin posted the response alone
C36_WitnessUnread ==
  /\ out.op \in ForcingOps /\ out.branch = "done"
  /\ ~out.args[Len(out.args)].reads
  /\ out.sent = <<Response(out.id, [ok |-> TRUE])>>
  /\ wire.queue = out.sent

\* and the page resolved the promise although no snapshot had arrived
C36_WitnessUnreadResolved ==
  /\ out.op = "message" /\ out.branch = "reply" /\ out.msg.type = "response"
  /\ promise[out.msg.id].state = "fulfilled"
  /\ received.id = out.msg.id /\ received.command \in ForcingCommands
  /\ lastSent = NothingSent

----------------------------------------------------------------------------
\* Claims about the attach loop (checked under SpecAttach).

\* the plugin has posted its ready message, the message is no longer on its
\* way, and the instance created last does not hold it
ReadyLost ==
  /\ pollTimer
  /\ \A i \in 1..Len(wire.queue) : wire.queue[i].type # "ready"
  /\ ~pluginReady

\* the step is the arrival of the ready message at a window where no
\* instance has a listener registered
ReadyUnheard == out'.op = "message" /\ out'.msg.type = "ready" /\ ~messageHandler

\* C37: the ready message that arrives before init() registered the
\* listener is lost; once the plugin's one ready message is lost nothing
\* brings it back, neither a selectionChanged message nor a new instance, and
\* from then on no init() call resolves: each one polls until it is rejected
\* by the ready timeout.
C37_ReadyNotLatched ==
  [][/\ ReadyUnheard => ReadyLost'
     /\ ReadyLost =>
          /\ ReadyLost'
          /\ \A c \in InitCalls : initPc'[c] = "resolved" => initPc[c] = "resolved"
          /\ attach'.pc = "connected" => attach.pc = "connected"]_vars

\* the plugin was initialised before the first instance listened: all eight
\* attempts ended by the ready timeout and the loop gave up, the component
\* still mounted
C37_Witness ==
  /\ ReadyLost
  /\ ~attach.disposed
  /\ attach.attempt = MaxAttempts /\ attach.pc = "returned"
  /\ attach.dropped = {Dropped(k, "rejected", TRUE) : k \in 1..MaxAttempts}
  /\ attach.handed = <<>>

\* a selectionChanged message arrived at the second instance, which went on
\* polling for ready
C37_WitnessSelection ==
  /\ out.op = "message" /\ out.branch = "selectionChanged"
  /\ latestSelection.text = <<"a">>
  /\ ReadyLost
  /\ attach.attempt = 2 /\ attach.pc = "init" /\ initPc[1] = "polling"

\* the attach loop makes at most eight attempts, arms its timer with the
\* retry delay, starts no attempt after disposal and hands an instance to
\* onControlApiReady only while the component is not disposed
AttachLoopBounded ==
  /\ attach'.attempt <= MaxAttempts
  /\ attach'.retryTimer \in {0, RETRY_DELAY_MS}
  /\ attach'.attempt # attach.attempt => ~attach.disposed
  /\ attach'.controlApiRef => ~attach'.disposed
  /\ Len(attach'.handed) > Len(attach.handed)
       /\ attach'.handed[Len(attach'.handed)] = "controlApi" => ~attach'.disposed

\* C38: every instance the attach loop created is handed to the application
\* while the component is not disposed, or is destroyed with its window
\* listener removed: no instance that was dropped, its init() failed or
\* completed after disposal, has a listener registered.
C38_InstancesHandedOrDestroyed ==
  [][/\ AttachLoopBounded
     /\ \A i \in attach'.dropped : ~i.messageHandler]_vars

\* C38, the part the code keeps: the bounds of the loop, and the instance
\* whose init() completed after disposal is destroyed
C38_CompletedAfterDisposalDestroyed ==
  [][/\ AttachLoopBounded
     /\ \A i \in attach'.dropped : i.init = "resolved" => ~i.messageHandler
     /\ out'.op = "attachSettled" /\ out'.branch = "destroyed" => ~messageHandler']_vars

\* the instance of the first attempt, whose init() was rejected by the ready
\* timeout, was dropped with its listener registered
C38_WitnessLeak ==
  /\ out.op = "attachSettled" /\ out.branch = "thrown"
  /\ attach.dropped = {Dropped(1, "rejected", TRUE)}
  /\ messageHandler

\* the init() of an instance completed after the cleanup; it was destroyed
C38_WitnessDestroyed ==
  /\ out.op = "attachSettled" /\ out.branch = "destroyed"
  /\ attach.disposed /\ ~messageHandler
  /\ Dropped(1, "resolved", FALSE) \in attach.dropped

----------------------------------------------------------------------------
\* Claims about calls in a row on the in-process editor (checked under
\* SpecMarks).

InProcessMarkOps == {"runMacro1HighlightDocument", "clearMacro1HighlightDocument"}

\* the document whose content is the HTML markup
Committed(markup) == AtLeastOneParagraph(Blocks(ParseHtml(markup), <<>>, FALSE))

\* what the call of the step makes of the HTML markup
Transformed(o, markup) ==
  IF o.op = "runMacro1HighlightDocument"
  THEN [html |-> highlightInHtml(markup, Trim(o.args[1]), resolveHighlightColor(o.args[2])).html,
        matches |-> highlightInHtml(markup, Trim(o.args[1]), resolveHighlightColor(o.args[2])).matches]
  ELSE [html |-> clearHighlightInHtml(markup, Trim(o.args[1])).html,
        matches |-> clearHighlightInHtml(markup, Trim(o.args[1])).matches]

C39_WitnessTwice ==
  /\ out.op = "runMacro1HighlightDocument" /\ out.branch = "done"
  /\ out.matches = 0
  /\ doc = <<<<Ch("a", "#fef08a"), Ch(" ", ""), Ch("A", "#fef08a")>>, <<Ch("a", "#fef08a")>>>>

====
